---- MODULE Spec2Model ----
(***************************************************************************)
(* Gamma MCA: the serial acquisition core (assets/js/serial.js) and the    *)
(* recording handlers of the application (main.ts).                        *)
(*                                                                         *)
(* A JavaScript string is a sequence of one-character strings, a           *)
(* Uint8Array a sequence of byte values.                                   *)
(***************************************************************************)
EXTENDS Integers, Sequences, FiniteSets, TLC

\* ------------------------------------------------------------------------
\* Settings.  adcChannels and maxSize are user settings (main.ts, cases
\* 'serChannels' and 'serBufferSize'); the model runs the code with small
\* values of them.  maxLength and eolChar have their source values.
\* ------------------------------------------------------------------------
adcChannels == 2

maxSize == 2

maxLength == 20

eolChar == <<";">>

CRLF == <<"\r", "\n">>

\* ------------------------------------------------------------------------
\* Bytes and characters
\* ------------------------------------------------------------------------
B_LF == 10
B_CR == 13
B_SP == 32
B_MINUS == 45
B_0 == 48
B_1 == 49
B_2 == 50
B_3 == 51
B_SEMI == 59
B_a == 97
B_FF == 255

REPLACEMENT == "U+FFFD"

\* new TextDecoder("utf-8").decode(uintArray), on the bytes the model feeds:
\* an ASCII byte is its character, a byte that is no UTF-8 is U+FFFD.
DecodeByte(b) ==
  CASE b = B_LF -> "\n"
    [] b = B_CR -> "\r"
    [] b = B_SP -> " "
    [] b = B_MINUS -> "-"
    [] b = B_0 -> "0"
    [] b = B_1 -> "1"
    [] b = B_2 -> "2"
    [] b = B_3 -> "3"
    [] b = B_SEMI -> ";"
    [] b = B_a -> "a"
    [] OTHER -> REPLACEMENT

Decode(uintArray) == [i \in 1..Len(uintArray) |-> DecodeByte(uintArray[i])]

\* ------------------------------------------------------------------------
\* String operations of the JavaScript runtime, as the code uses them
\* ------------------------------------------------------------------------
IsPrefixAt(s, pat, i) ==
  /\ i + Len(pat) - 1 <= Len(s)
  /\ \A k \in 1..Len(pat) : s[i + k - 1] = pat[k]

\* String.prototype.indexOf: first position of pat in s, 0 when absent
IndexOf(s, pat) ==
  LET hits == {i \in 1..Len(s) : IsPrefixAt(s, pat, i)}
  IN IF hits = {} THEN 0 ELSE CHOOSE i \in hits : \A j \in hits : i <= j

\* s.split(sep), sep not empty: the segments between the occurrences of sep
RECURSIVE Split(_, _)
Split(s, sep) ==
  LET i == IndexOf(s, sep)
  IN IF i = 0 THEN <<s>>
     ELSE <<SubSeq(s, 1, i - 1)>> \o Split(SubSeq(s, i + Len(sep), Len(s)), sep)

\* s.replace(pat, ''), pat a string: removes the first occurrence only
ReplaceFirst(s, pat) ==
  LET i == IndexOf(s, pat)
  IN IF i = 0 THEN s
     ELSE SubSeq(s, 1, i - 1) \o SubSeq(s, i + Len(pat), Len(s))

WhiteSpace == {" ", "\r", "\n", "\t"}

RECURSIVE TrimStart(_)
TrimStart(s) ==
  IF s # <<>> /\ Head(s) \in WhiteSpace THEN TrimStart(Tail(s)) ELSE s

RECURSIVE TrimEnd(_)
TrimEnd(s) ==
  IF s # <<>> /\ s[Len(s)] \in WhiteSpace
    THEN TrimEnd(SubSeq(s, 1, Len(s) - 1)) ELSE s

\* String.prototype.trim
Trim(s) == TrimEnd(TrimStart(s))

Digits == {"0", "1", "2", "3", "4", "5", "6", "7", "8", "9"}

DigitVal(c) ==
  CASE c = "0" -> 0 [] c = "1" -> 1 [] c = "2" -> 2 [] c = "3" -> 3
    [] c = "4" -> 4 [] c = "5" -> 5 [] c = "6" -> 6 [] c = "7" -> 7
    [] c = "8" -> 8 [] c = "9" -> 9

\* the longest prefix of s made of digits
RECURSIVE DigitPrefix(_)
DigitPrefix(s) ==
  IF s # <<>> /\ Head(s) \in Digits THEN <<Head(s)>> \o DigitPrefix(Tail(s))
  ELSE <<>>

RECURSIVE DecimalValue(_)
DecimalValue(ds) ==
  IF ds = <<>> THEN 0
  ELSE 10 * DecimalValue(SubSeq(ds, 1, Len(ds) - 1)) + DigitVal(ds[Len(ds)])

\* parseInt(s) with no radix: leading white space is skipped, one sign is
\* read, then the longest run of decimal digits; what follows the digits is
\* ignored.  (No "0x" prefix occurs in the model's alphabet.)
ParseBody(s) ==
  LET t == TrimStart(s)
  IN IF t # <<>> /\ Head(t) \in {"-", "+"} THEN Tail(t) ELSE t

ParseSign(s) ==
  LET t == TrimStart(s)
  IN IF t # <<>> /\ Head(t) = "-" THEN -1 ELSE 1

\* isNaN(parseInt(s))
ParseIntIsNaN(s) == DigitPrefix(ParseBody(s)) = <<>>

\* parseInt(s) when it is a number
ParseInt(s) == ParseSign(s) * DecimalValue(DigitPrefix(ParseBody(s)))

\* ------------------------------------------------------------------------
\* SerialManager (serial.js): the Stream Framer
\* ------------------------------------------------------------------------
\* The model runs with short console and histogram-frame limits
\* (serial.js: consoleMemory = 1000000, maxHistLength = 2 ** 18 * 2 * 10).
consoleMemory == 8

maxHistLength == 12

\* stringArr.pop()
Pop(arr) == IF arr = <<>> THEN <<>> ELSE SubSeq(arr, 1, Len(arr) - 1)

\* stringArr.shift()
Shift(arr) == IF arr = <<>> THEN <<>> ELSE Tail(arr)

\* chronological mode: the test that lets an element be pushed as a sample
ChronAccepts(element) ==
  LET trimString == Trim(element)
  IN /\ ~(Len(trimString) = 0 \/ Len(trimString) >= maxLength)
     /\ ~ParseIntIsNaN(trimString)
     /\ ~(ParseInt(trimString) < 0 \/ ParseInt(trimString) > adcChannels)

\* a loop that puts each new sample in front of the pending ones
RECURSIVE ChronLoopNewestFirst(_, _, _)
ChronLoopNewestFirst(stringArr, rawData, bufferPulseData) ==
  IF stringArr = <<>>
    THEN [rawData |-> rawData, bufferPulseData |-> bufferPulseData]
    ELSE LET element == Head(stringArr)
             raw1 == ReplaceFirst(rawData, element \o eolChar)
         IN IF ChronAccepts(element)
              THEN ChronLoopNewestFirst(Tail(stringArr), raw1,
                     <<ParseInt(Trim(element))>> \o bufferPulseData)
              ELSE ChronLoopNewestFirst(Tail(stringArr), raw1, bufferPulseData)

\* chronological mode: the for loop over stringArr
RECURSIVE ChronLoop(_, _, _)
ChronLoop(stringArr, rawData, bufferPulseData) ==
  IF stringArr = <<>>
    THEN [rawData |-> rawData, bufferPulseData |-> bufferPulseData]
    ELSE LET element == Head(stringArr)
             raw1 == ReplaceFirst(rawData, element \o eolChar)
         IN IF ChronAccepts(element)
              THEN ChronLoop(Tail(stringArr), raw1,
                             Append(bufferPulseData, ParseInt(Trim(element))))
              ELSE ChronLoop(Tail(stringArr), raw1, bufferPulseData)

\* chronological mode: split, drop the last and the first segment
ChronArr(rawData) == Shift(Pop(Split(rawData, eolChar)))

\* a chronological addRaw that never resets the frame buffer
addRawChronNoReset(m) ==
  LET stringArr == ChronArr(m.rawData)
  IN IF Len(stringArr) <= 1 THEN m
     ELSE LET r == ChronLoop(stringArr, m.rawData, m.bufferPulseData)
          IN [m EXCEPT !.rawData = r.rawData,
                       !.bufferPulseData = r.bufferPulseData]

\* chronological mode after this.rawData += string
addRawChron(m) ==
  LET stringArr == ChronArr(m.rawData)
  IN IF Len(stringArr) <= 1
       THEN IF Len(m.rawData) > maxLength THEN [m EXCEPT !.rawData = <<>>]
            ELSE m
       ELSE LET r == ChronLoop(stringArr, m.rawData, m.bufferPulseData)
            IN [m EXCEPT !.rawData = r.rawData,
                         !.bufferPulseData = r.bufferPulseData]

\* histogram mode: stringHist.map(x => isNaN(parseInt(x)) ? 0 : parseInt(x))
NumHist(stringHist) ==
  [i \in 1..Len(stringHist) |->
     IF ParseIntIsNaN(stringHist[i]) THEN 0 ELSE ParseInt(stringHist[i])]

\* histogram mode: the tokens of a line, last one dropped
StringHist(trimString) == Pop(Split(trimString, eolChar))

\* histogram mode: the test that lets a line be taken as a row
HistAccepts(element) ==
  LET trimString == Trim(element)
  IN /\ ~(Len(trimString) = 0 \/ Len(trimString) >= maxHistLength)
     /\ Len(StringHist(trimString)) = adcChannels

\* a differencing that forgets the baseline: the row itself is the increment
DiffHistRowOnly(numHist, baseHist) ==
  [i \in 1..Len(numHist) |-> numHist[i]]

\* numHist.map((item, index) => item - this.baseHist[index]); the baseline
\* and the pending buffer have adcChannels entries whenever this runs, since
\* the model keeps the wire mode and adcChannels fixed during a run
DiffHist(numHist, baseHist) ==
  [i \in 1..Len(numHist) |->
     numHist[i] - baseHist[i]]

\* for (const index in this.bufferPulseData) bufferPulseData[index] += diffHist[index]
AddDiff(bufferPulseData, diffHist) ==
  [i \in 1..Len(bufferPulseData) |->
     bufferPulseData[i] + diffHist[i]]

\* a loop that, when it sets the baseline, throws away the lines that
\* follow the baseline row in the frame buffer
RECURSIVE HistLoopDroppingRest(_, _, _)
HistLoopDroppingRest(stringArr, m, now) ==
  IF stringArr = <<>> THEN m
  ELSE LET element == Head(stringArr)
           m1 == [m EXCEPT !.rawData = ReplaceFirst(@, element \o CRLF)]
           numHist == NumHist(StringHist(Trim(element)))
           buf == IF m1.bufferPulseData = <<>>
                    THEN [i \in 1..adcChannels |-> 0]
                    ELSE m1.bufferPulseData
           parts == Split(m1.rawData, CRLF)
       IN IF ~HistAccepts(element)
            THEN HistLoopDroppingRest(Tail(stringArr), m1, now)
          ELSE IF m1.baseHist = <<>>
            THEN [m1 EXCEPT !.baseHist = numHist, !.startTime = now,
                            !.rawData = parts[Len(parts)]]
            ELSE HistLoopDroppingRest(Tail(stringArr),
                   [m1 EXCEPT !.bufferPulseData =
                                 AddDiff(buf, DiffHist(numHist, m1.baseHist)),
                              !.baseHist = numHist],
                   now)

\* a loop that forgets the baseline when it skips a line
RECURSIVE HistLoopForgettingBase(_, _, _)
HistLoopForgettingBase(stringArr, m, now) ==
  IF stringArr = <<>> THEN m
  ELSE LET element == Head(stringArr)
           m1 == [m EXCEPT !.rawData = ReplaceFirst(@, element \o CRLF)]
           numHist == NumHist(StringHist(Trim(element)))
           buf == IF m1.bufferPulseData = <<>>
                    THEN [i \in 1..adcChannels |-> 0]
                    ELSE m1.bufferPulseData
       IN IF ~HistAccepts(element)
            THEN HistLoopForgettingBase(Tail(stringArr),
                                        [m1 EXCEPT !.baseHist = <<>>], now)
          ELSE IF m1.baseHist = <<>>
            THEN [m1 EXCEPT !.baseHist = numHist, !.startTime = now]
            ELSE HistLoopForgettingBase(Tail(stringArr),
                   [m1 EXCEPT !.bufferPulseData =
                                 AddDiff(buf, DiffHist(numHist, m1.baseHist)),
                              !.baseHist = numHist],
                   now)

\* histogram mode: the for loop over stringArr; it returns from addRaw when
\* it sets the baseline
RECURSIVE HistLoop(_, _, _)
HistLoop(stringArr, m, now) ==
  IF stringArr = <<>> THEN m
  ELSE LET element == Head(stringArr)
           m1 == [m EXCEPT !.rawData = ReplaceFirst(@, element \o CRLF)]
           numHist == NumHist(StringHist(Trim(element)))
           buf == IF m1.bufferPulseData = <<>>
                    THEN [i \in 1..adcChannels |-> 0]
                    ELSE m1.bufferPulseData
       IN IF ~HistAccepts(element) THEN HistLoop(Tail(stringArr), m1, now)
          ELSE IF m1.baseHist = <<>>
            THEN [m1 EXCEPT !.baseHist = numHist, !.startTime = now]
            ELSE HistLoop(Tail(stringArr),
                   [m1 EXCEPT !.bufferPulseData =
                                 AddDiff(buf, DiffHist(numHist, m1.baseHist)),
                              !.baseHist = numHist],
                   now)

addRawHist(m, now) ==
  LET stringArr == Pop(Split(m.rawData, CRLF))
  IN IF stringArr = <<>>
       THEN IF Len(m.rawData) > maxHistLength THEN [m EXCEPT !.rawData = <<>>]
            ELSE m
       ELSE HistLoop(stringArr, m, now)

\* rawConsoleData after a chunk: the last consoleMemory characters
ConsoleAppend(rawConsoleData, string) ==
  LET all == rawConsoleData \o string
  IN IF Len(all) > consoleMemory
       THEN SubSeq(all, Len(all) - consoleMemory + 1, Len(all))
       ELSE all

\* an addRaw without the saturation test
addRawUnguarded(m, uintArray, order, now) ==
  LET string == Decode(uintArray)
      m1 == [m EXCEPT !.rawConsoleData = ConsoleAppend(@, string)]
      m2 == [m1 EXCEPT !.rawData = @ \o string]
  IN IF m.onlyConsole THEN m1
     ELSE IF order = "chron" THEN addRawChron(m2)
     ELSE IF order = "hist" THEN addRawHist(m2, now)
     ELSE m2

\* an addRaw that tests the saturation before it appends to the console
addRawSaturationFirst(m, uintArray, order, now) ==
  LET string == Decode(uintArray)
      m1 == [m EXCEPT !.rawConsoleData = ConsoleAppend(@, string)]
      m2 == [m1 EXCEPT !.rawData = @ \o string]
  IN IF ~m.onlyConsole /\ Len(m.bufferPulseData) > m.maxSize THEN m
     ELSE IF m.onlyConsole THEN m1
     ELSE IF order = "chron" THEN addRawChron(m2)
     ELSE IF order = "hist" THEN addRawHist(m2, now)
     ELSE m2

\* an addRaw that frames the chunk in console-only mode too
addRawAlwaysFraming(m, uintArray, order, now) ==
  LET string == Decode(uintArray)
      m1 == [m EXCEPT !.rawConsoleData = ConsoleAppend(@, string)]
      m2 == [m1 EXCEPT !.rawData = @ \o string]
  IN IF Len(m.bufferPulseData) > m.maxSize THEN m1
     ELSE IF order = "chron" THEN addRawChron(m2)
     ELSE IF order = "hist" THEN addRawHist(m2, now)
     ELSE m2

\* SerialManager.addRaw on the manager m, under the wire mode order, at
\* time now
addRaw(m, uintArray, order, now) ==
  LET string == Decode(uintArray)
      m1 == [m EXCEPT !.rawConsoleData = ConsoleAppend(@, string)]
      m2 == [m1 EXCEPT !.rawData = @ \o string]
  IN IF m.onlyConsole THEN m1
     ELSE IF Len(m.bufferPulseData) > m.maxSize THEN m1
     ELSE IF order = "chron" THEN addRawChron(m2)
     ELSE IF order = "hist" THEN addRawHist(m2, now)
     ELSE m2

\* a flush that empties the frame buffer only
flushDataRawOnly(m) == [m EXCEPT !.rawData = <<>>]

\* SerialManager.flushData
flushData(m) == [m EXCEPT !.rawData = <<>>, !.bufferPulseData = <<>>]

\* SerialManager.clearBaseHist
clearBaseHist(m) == [m EXCEPT !.baseHist = <<>>]

\* SerialManager.flushRawData: this.rawConsoleData = ''
flushRawData(m) == [m EXCEPT !.rawConsoleData = <<>>]

\* SerialManager.getData: the manager after the call (the call returns the
\* old bufferPulseData)
getData(m) == [m EXCEPT !.bufferPulseData = <<>>]

\* SerialManager.getTime
getTime(m, now) ==
  IF m.recording THEN now - m.startTime + m.timeDone ELSE m.timeDone

\* ------------------------------------------------------------------------
\* SpectrumData (main.ts)
\* ------------------------------------------------------------------------
\* the value of undefined + 1
NaN == -999999

Zeros(n) == [i \in 1..n |-> 0]

\* this[type][value] += 1 on the array target (bins are 0-based in the code)
IncBin(target, value) ==
  IF value + 1 \in DOMAIN target
    THEN [target EXCEPT ![value + 1] = IF @ = NaN THEN NaN ELSE @ + 1]
  ELSE IF value + 1 = Len(target) + 1 THEN Append(target, NaN)
  ELSE target

RECURSIVE IncBins(_, _)
IncBins(target, newDataArr) ==
  IF newDataArr = <<>> THEN target
  ELSE IncBins(IncBin(target, Head(newDataArr)), Tail(newDataArr))

\* SpectrumData.addPulseData
addPulseData(target, newDataArr) ==
  IncBins(IF target = <<>> THEN Zeros(adcChannels) ELSE target, newDataArr)

\* SpectrumData.addHist: an empty target becomes the array newHistArr
\* itself, and the loop then adds that array to itself
addHist(target, newHistArr) ==
  LET t == IF target = <<>> THEN newHistArr ELSE target
  IN [i \in 1..Len(t) |->
        IF i \in DOMAIN newHistArr
          THEN (IF target = <<>> THEN 2 * newHistArr[i] ELSE t[i] + newHistArr[i])
          ELSE t[i]]

\* ------------------------------------------------------------------------
\* Calibration: SpectrumPlot.getCalAxis (plot module), toggleCal (main.ts)
\* ------------------------------------------------------------------------
\* Axis values are kept in hundredths: toFixed(2) leaves two decimals.
\* The arithmetic is exact; NaN stands for the value of a division by zero
\* (NaN for channels that are not negative: Infinity - Infinity,
\* Infinity * 0 or 0 / 0).
Abs(x) == IF x < 0 THEN -x ELSE x

Sign(x) == IF x < 0 THEN -1 ELSE 1

\* parseFloat(x.toFixed(2)) in hundredths for x = q + r / d with
\* 0 <= r < d: the nearest hundredth, a tie away from zero
ToFixed2Parts(q, r, d) ==
  LET h == (100 * q) + ((100 * r) \div d)
      rest == (100 * r) % d
  IN IF 2 * rest > d THEN h + 1
     ELSE IF 2 * rest = d /\ h >= 0 THEN h + 1
     ELSE h

\* parseFloat((n / d).toFixed(2)) in hundredths
ToFixed2(n, d) ==
  IF d = 0 THEN NaN
  ELSE ToFixed2Parts((Sign(d) * n) \div Abs(d), (Sign(d) * n) % Abs(d), Abs(d))

\* SpectrumPlot.getXAxis
getXAxis(len) == [j \in 1..len |-> 100 * (j - 1)]

\* the value getCalAxis pushes for the index i with the 2-point formula:
\* k * i + d with k = (aTo - bTo) / (aFrom - bFrom), d = aTo - k * aFrom
\* and the intercept taken at the second point
CalValue2InterceptAtB(c, i) ==
  ToFixed2((c.aTo - c.bTo) * i + c.aTo * (c.aFrom - c.bFrom)
             - (c.aTo - c.bTo) * c.bFrom,
           c.aFrom - c.bFrom)

\* the value getCalAxis pushes for the index i with the 2-point formula:
\* k * i + d with k = (aTo - bTo) / (aFrom - bFrom), d = aTo - k * aFrom
CalValue2(c, i) ==
  ToFixed2((c.aTo - c.bTo) * i + c.aTo * (c.aFrom - c.bFrom)
             - (c.aTo - c.bTo) * c.aFrom,
           c.aFrom - c.bFrom)

\* the value getCalAxis pushes for the index i with the 3-point formula:
\* a * i^2 + k * i + d, each coefficient a quotient by denom
CalValue3(c, i) ==
  LET denom == (c.aFrom - c.bFrom) * (c.aFrom - c.cFrom) * (c.bFrom - c.cFrom)
      k == c.cFrom * c.cFrom * (c.aTo - c.bTo)
             + c.aFrom * c.aFrom * (c.bTo - c.cTo)
             + c.bFrom * c.bFrom * (c.cTo - c.aTo)
      d == c.bFrom * (c.bFrom - c.cFrom) * c.cFrom * c.aTo
             + c.aFrom * c.cFrom * (c.cFrom - c.aFrom) * c.bTo
             + c.aFrom * (c.aFrom - c.bFrom) * c.bFrom * c.cTo
      a == c.cFrom * (c.bTo - c.aTo) + c.bFrom * (c.aTo - c.cTo)
             + c.aFrom * (c.cTo - c.bTo)
      \* ((a * i + k) * i + d) / denom in steps that stay in 32 bits
      s == Sign(denom)
      den == Abs(denom)
      x1 == s * (a * i + k)
      q2 == ((x1 \div den) * i) + (((x1 % den) * i) \div den)
      r2 == ((x1 % den) * i) % den
      qd == (s * d) \div den
      rd == (s * d) % den
      q3 == q2 + qd + ((r2 + rd) \div den)
      r3 == (r2 + rd) % den
  IN IF denom = 0 THEN NaN ELSE ToFixed2Parts(q3, r3, den)

\* SpectrumPlot.getCalAxis on the reference points c
getCalAxis(c, len) ==
  [j \in 1..len |-> IF c.three THEN CalValue3(c, j - 1) ELSE CalValue2(c, j - 1)]

\* the reference points of a new SpectrumPlot
NoPoints ==
  [aFrom |-> 0, aTo |-> 0, bFrom |-> 0, bTo |-> 0, cFrom |-> 0, cTo |-> 0,
   three |-> FALSE]

\* on the texts of the number inputs (digits only, or empty) parseFloat
\* reads what parseInt reads
ParseFloatIsNaN(s) == ParseIntIsNaN(s)

ParseFloat(s) == ParseInt(s)

\* toggleCal: readoutArray, the pairs of input texts
ReadoutArray(inputs) ==
  << <<inputs.adcA, inputs.calA>>, <<inputs.adcB, inputs.calB>>,
     <<inputs.adcC, inputs.calC>> >>

PairIsInvalid(pair) == ParseFloatIsNaN(pair[1]) \/ ParseFloatIsNaN(pair[2])

PairIsValid(pair) == ~PairIsInvalid(pair)

\* toggleCal: the count invalid after the whole loop
InvalidCount(readoutArray) == Len(SelectSeq(readoutArray, PairIsInvalid))

\* toggleCal: validArray
ValidArray(readoutArray) ==
  LET valid == SelectSeq(readoutArray, PairIsValid)
  IN [j \in 1..Len(valid) |-> <<ParseFloat(valid[j][1]), ParseFloat(valid[j][2])>>]

\* toggleCal: the assignments to plot.calibration.points
AssignPoints(validArray) ==
  [aFrom |-> validArray[1][1], aTo |-> validArray[1][2],
   bFrom |-> validArray[2][1], bTo |-> validArray[2][2],
   cFrom |-> IF Len(validArray) = 3 THEN validArray[3][1] ELSE 0,
   cTo |-> IF Len(validArray) = 3 THEN validArray[3][2] ELSE 0,
   three |-> Len(validArray) = 3]

\* plot.resetPlot: plotData sets the x axis of the trace
PlotAxis(c, len) ==
  IF c.enabled THEN getCalAxis(c.points, len) ELSE getXAxis(len)

\* toggleCal(false)
toggleCalOff(c, len) ==
  LET c1 == [c EXCEPT !.enabled = FALSE]
  IN [c1 EXCEPT !.axis = PlotAxis(c1, len)]

\* a toggleCal that goes on to enable after it has declined
toggleCalNoReturn(c, enabled, len) ==
  IF ~enabled THEN [toggleCalOff(c, len) EXCEPT !.last = "disabled"]
  ELSE IF InvalidCount(ReadoutArray(c.inputs)) > 1
    THEN LET c1 == [toggleCalOff([c EXCEPT !.checked = FALSE], len)
                      EXCEPT !.enabled = TRUE]
         IN [c1 EXCEPT !.last = "declined", !.axis = PlotAxis(c1, len)]
  ELSE LET c1 == [c EXCEPT !.points = AssignPoints(ValidArray(ReadoutArray(c.inputs))),
                           !.enabled = TRUE]
       IN [c1 EXCEPT !.last = "enabled", !.axis = PlotAxis(c1, len)]

\* main.ts toggleCal(enabled) with no imported calibration; two invalid
\* pairs decline: the notification, the checkbox unchecked, toggleCal(false)
toggleCal(c, enabled, len) ==
  IF ~enabled THEN [toggleCalOff(c, len) EXCEPT !.last = "disabled"]
  ELSE IF InvalidCount(ReadoutArray(c.inputs)) > 1
    THEN [toggleCalOff([c EXCEPT !.checked = FALSE], len)
            EXCEPT !.last = "declined"]
  ELSE LET c1 == [c EXCEPT !.points = AssignPoints(ValidArray(ReadoutArray(c.inputs))),
                           !.enabled = TRUE]
       IN [c1 EXCEPT !.last = "enabled", !.axis = PlotAxis(c1, len)]

\* ------------------------------------------------------------------------
\* Peak markers: SpectrumPlot.peakFinder, toggleLine (plot module) with the
\* peak finder in its energy mode (peakConfig.mode = 0)
\* ------------------------------------------------------------------------
\* peakConfig.thres = 0.025 as the quotient ThresNum / ThresDen
ThresNum == 25

ThresDen == 1000

\* peakConfig.lag
lag == 150

\* peakConfig.width
width == 2

\* prevClickLine = undefined
NoLine == -1

RECURSIVE GCD(_, _)
GCD(a, b) == IF b = 0 THEN a ELSE GCD(b, a % b)

\* the number n / d (d > 0, n >= 0), in lowest terms
Frac(n, d) == [n |-> n \div GCD(n, d), d |-> d \div GCD(n, d)]

RECURSIVE SumOf(_)
SumOf(values) == IF values = <<>> THEN 0 ELSE Head(values) + SumOf(Tail(values))

SeqMax(values) ==
  CHOOSE m \in {values[j] : j \in DOMAIN values} :
    \A j \in DOMAIN values : values[j] <= m

\* a loop for (const i in arr) { if (match) arr.splice(i, 1) } from the
\* index i on: after a splice the element that moved down is passed over
RECURSIVE SpliceShapes(_, _, _)
SpliceShapes(shapes, i, energy) ==
  IF i > Len(shapes) THEN shapes
  ELSE IF shapes[i] = energy
    THEN SpliceShapes(SubSeq(shapes, 1, i - 1) \o SubSeq(shapes, i + 1, Len(shapes)),
                      i + 1, energy)
  ELSE SpliceShapes(shapes, i + 1, energy)

RECURSIVE SpliceAnnos(_, _, _)
SpliceAnnos(annos, i, x) ==
  IF i > Len(annos) THEN annos
  ELSE IF annos[i].x = x
    THEN SpliceAnnos(SubSeq(annos, 1, i - 1) \o SubSeq(annos, i + 1, Len(annos)),
                     i + 1, x)
  ELSE SpliceAnnos(annos, i + 1, x)

\* String(n) of a whole number n >= 0: its decimal digits
RECURSIVE NumberText(_)
NumberText(n) ==
  LET digit(k) == CHOOSE c \in Digits : DigitVal(c) = k
  IN IF n < 10 THEN <<digit(n)>>
     ELSE NumberText(n \div 10) \o <<digit(n % 10)>>

\* energy.toFixed(2) of a number that is not negative: the whole part, the
\* point and two decimals
FixedText(energy) ==
  LET h == ToFixed2(energy.n, energy.d)
  IN NumberText(h \div 100) \o <<".">>
       \o NumberText((h % 100) \div 10) \o NumberText(h % 10)

\* newLine.toString() of a whole number that is not negative
WholeText(newLine) == NumberText(newLine)

\* name.replaceAll('-', '')
NoHyphens(name) ==
  LET kept(c) == c # "-"
  IN SelectSeq(name, kept)

\* SpectrumPlot.toggleLine on the markers m: a shape is its x0, an
\* annotation its x and text (the other fields are fixed, hovertext
\* follows x); a text is a sequence of characters
toggleLine(m, energy, name, enabled) ==
  LET newAnno == [x |-> ToFixed2(energy.n, energy.d), text |-> NoHyphens(name)]
  IN IF enabled
       THEN IF \/ \E j \in DOMAIN m.shapes : m.shapes[j] = energy
               \/ \E j \in DOMAIN m.annotations : m.annotations[j] = newAnno
              THEN m
              ELSE [m EXCEPT !.shapes = Append(@, energy),
                             !.annotations = Append(@, newAnno)]
       ELSE [m EXCEPT !.shapes = SpliceShapes(@, 1, energy),
                      !.annotations = SpliceAnnos(@, 1, ToFixed2(energy.n, energy.d))]

RECURSIVE RemoveLines(_, _)
RemoveLines(m, lines) ==
  IF lines = <<>> THEN m
  ELSE RemoveLines(toggleLine(m, Head(lines), <<>>, FALSE), Tail(lines))

\* computeMovingAverage(target, length)[i] as the pair sum, divider of the
\* window around the 0-based index i, cut at the ends of the data (the
\* running update of the inner indices gives the same average)
MovingWindow(target, i, length) ==
  LET half == (length + 1) \div 2
      lo == IF i - half + 1 < 0 THEN 0 ELSE i - half + 1
      hi == IF i + length - half > Len(target) - 1
              THEN Len(target) - 1 ELSE i + length - half
  IN [sum |-> SumOf(SubSeq(target, lo + 1, hi + 1)), divider |-> hi - lo + 1]

\* a value of newData that is not a number (undefined took part in it)
NotANumber == [n |-> 0, d |-> 0]

\* computeMovingAverage, the shortcut at the 0-based index i:
\* newData[i - 1] + (addVal - removeVal) / length; a read outside target
\* gives undefined and the value is not a number
ShortcutValue(target, length, i, prev) ==
  LET half == (length + 1) \div 2
      addIndex == i + half - (length % 2)
      removeIndex == i - half
      inside(k) == k >= 0 /\ k < Len(target)
  IN [value |-> IF inside(addIndex) /\ inside(removeIndex) /\ prev # NotANumber
                  THEN Frac(prev.n * length
                              + (target[addIndex + 1] - target[removeIndex + 1]) * prev.d,
                            prev.d * length)
                  ELSE NotANumber,
      reads |-> {addIndex, removeIndex}]

\* computeMovingAverage, the loop over j at the 0-based index i: the
\* indices it adds up, val / divider
DirectValue(target, length, i) ==
  LET half == (length + 1) \div 2
      left == { i - j : j \in { j \in 0..(length - 1) : j < half /\ i - j >= 0 } }
      right == { i - half + 1 + j :
                   j \in { j \in 0..(length - 1) :
                             j >= half /\ i - half + 1 + j < Len(target) } }
      used == left \cup right
      RECURSIVE Sum(_)
      Sum(S) == IF S = {} THEN 0
                ELSE LET k == CHOOSE k \in S : TRUE
                     IN target[k + 1] + Sum(S \ {k})
  IN [value |-> IF used = {} THEN NotANumber
                ELSE Frac(Sum(used), Cardinality(used)),
      reads |-> used]

\* a loop whose shortcut goes one index further to the right
RECURSIVE SmaLoopFurther(_, _, _, _)
SmaLoopFurther(target, length, i, acc) ==
  LET half == (length + 1) \div 2
  IN IF i >= Len(target) THEN acc
     ELSE LET r == IF i >= half /\ i <= Len(target) - half
                     THEN ShortcutValue(target, length, i, acc.data[i])
                     ELSE DirectValue(target, length, i)
          IN SmaLoopFurther(target, length, i + 1,
                            [data |-> Append(acc.data, r.value),
                             reads |-> acc.reads \cup r.reads])

\* computeMovingAverage: the loop for (const i in newData) from the 0-based
\* index i on; acc holds newData[0..i-1] and the indices of target read
RECURSIVE SmaLoop(_, _, _, _)
SmaLoop(target, length, i, acc) ==
  LET half == (length + 1) \div 2
  IN IF i >= Len(target) THEN acc
     ELSE LET r == IF i >= half /\ i <= Len(target) - half - 1
                     THEN ShortcutValue(target, length, i, acc.data[i])
                     ELSE DirectValue(target, length, i)
          IN SmaLoop(target, length, i + 1,
                     [data |-> Append(acc.data, r.value),
                      reads |-> acc.reads \cup r.reads])

\* SpectrumPlot.computeMovingAverage(target, length) for a length of 1 or
\* more: newData as fractions, and the indices of target it has read
computeMovingAverage(target, length) ==
  SmaLoop(target, length, 0, [data |-> <<>>, reads |-> {}])

\* peakFinder: shortData[i] - longData[i] > thres * maxVal
IsPeakBin(shortData, i) ==
  LET w == MovingWindow(shortData, i, lag)
  IN (shortData[i + 1] * w.divider - w.sum) * ThresDen
       > ThresNum * SeqMax(shortData) * w.divider

\* peakFinder: peakLines after peakLines.push(0), on the x axis 0, 1, ...
PeakLines(shortData) ==
  LET all == [j \in 1..Len(shortData) |-> j - 1]
      Above(x) == IsPeakBin(shortData, x)
  IN Append(SelectSeq(all, Above), 0)

\* peakConfig.seekWidth
seekWidth == 2

SeqMin(values) ==
  CHOOSE m \in {values[j] : j \in DOMAIN values} :
    \A j \in DOMAIN values : m <= values[j]

\* the value undefined where a name is expected
Undefined == <<"undefined">>

\* seekClosest: no isotope found
NoMatch == [found |-> FALSE, energy |-> 0, name |-> Undefined]

\* seekClosest: closeValsNum.reduce((prev, curr) =>
\*   Math.abs(curr - value) < Math.abs(prev - value) ? curr : prev)
RECURSIVE SeekReduce(_, _, _)
SeekReduce(prev, rest, value) ==
  IF rest = <<>> THEN prev
  ELSE LET curr == Head(rest)
       IN SeekReduce(IF Abs(curr * value.d - value.n) < Abs(prev * value.d - value.n)
                       THEN curr ELSE prev,
                     Tail(rest), value)

\* this.isoList[closest]: the name under the key String(closest)
IsoName(isoList, closest) ==
  LET hits == { j \in DOMAIN isoList : isoList[j].key = NumberText(closest) }
  IN IF hits = {} THEN Undefined
     ELSE isoList[CHOOSE j \in hits : TRUE].name

\* a seekClosest that leaves out the keys at the distance maxDist itself
seekClosestBelow(isoList, value, maxDist) ==
  LET Close(entry) ==
        /\ entry.key # <<>>
        /\ ~ParseFloatIsNaN(entry.key)
        /\ Abs(ParseFloat(entry.key) * value.d - value.n) < maxDist * value.d
      closeVals == SelectSeq(isoList, Close)
      closeValsNum == [j \in 1..Len(closeVals) |-> ParseFloat(closeVals[j].key)]
  IN IF Len(closeValsNum) > 0
       THEN LET closest == SeekReduce(Head(closeValsNum), Tail(closeValsNum), value)
            IN [found |-> TRUE, energy |-> closest,
                name |-> IsoName(isoList, closest)]
       ELSE NoMatch

\* SpectrumPlot.seekClosest(value, maxDist) on the table isoList, a
\* sequence of entries (key, name) in the order of Object.keys; value is a
\* fraction
seekClosest(isoList, value, maxDist) ==
  LET Close(entry) ==
        /\ entry.key # <<>>
        /\ ~ParseFloatIsNaN(entry.key)
        /\ Abs(ParseFloat(entry.key) * value.d - value.n) <= maxDist * value.d
      closeVals == SelectSeq(isoList, Close)
      closeValsNum == [j \in 1..Len(closeVals) |-> ParseFloat(closeVals[j].key)]
  IN IF Len(closeValsNum) > 0
       THEN LET closest == SeekReduce(Head(closeValsNum), Tail(closeValsNum), value)
            IN [found |-> TRUE, energy |-> closest,
                name |-> IsoName(isoList, closest)]
       ELSE NoMatch

\* peakFinder, isotope mode: the group with the mean result is looked up
\* and marked if an isotope is found (history: the lookup is recorded)
IsoMark(m, vals, result) ==
  LET size == IF Len(vals) = 1 THEN seekWidth
              ELSE seekWidth * (SeqMax(vals) - SeqMin(vals))
      r == seekClosest(m.isoList, result, size)
      m1 == [m EXCEPT !.seeks = Append(@, [value |-> result, maxDist |-> size,
                                           result |-> r])]
  IN IF r.found /\ r.name # Undefined
       THEN [toggleLine(m1, Frac(r.energy, 1), r.name, TRUE)
               EXCEPT !.lines = Append(@, Frac(r.energy, 1))]
       ELSE m1

\* peakFinder: the loop over peakLines from the index i (1-based) on
RECURSIVE GroupLoop(_, _, _, _)
GroupLoop(peakLines, i, values, m) ==
  IF i > Len(peakLines) THEN m
  ELSE LET vals == Append(values, peakLines[i])
           result == Frac(SumOf(vals), Len(vals))
       IN IF i < Len(peakLines) /\ Abs(peakLines[i + 1] - peakLines[i]) > width
            THEN GroupLoop(peakLines, i + 1, <<>>,
                           IF m.mode = 0
                             THEN [toggleLine(m, result, FixedText(result), TRUE)
                                     EXCEPT !.lines = Append(@, result)]
                             ELSE IsoMark(m, vals, result))
            ELSE GroupLoop(peakLines, i + 1, vals, m)

\* SpectrumPlot.peakFinder() on the markers m and the data lastDataY
peakFinder(m, lastDataY) ==
  GroupLoop(PeakLines(lastDataY), 1, <<>>,
            [RemoveLines(m, m.lines) EXCEPT !.lines = <<>>, !.seeks = <<>>])

\* ------------------------------------------------------------------------
\* State
\* ------------------------------------------------------------------------
VARIABLES
  orderType,     \* SerialManager.orderType: "chron" or "hist"
  sm,            \* the SerialManager object (serRecorder)
  now,           \* performance.now()
  fed,           \* history: what the harness has fed and what was accepted
  port,          \* the transport object: WebSerial or WebUSBSerial
  link,          \* the underlying link: "closed", "open", "lost"
  lock,          \* the read loop whose reader locks port.readable, or 0
  loops,         \* the readUntilClosed invocations
  calls,         \* the handler invocations that wait for the browser
  spectrum,      \* spectrumData[type] of the recorded type
  refreshTimers, \* the pending refreshRender timeouts: cur, whether the
                 \* timeout that refreshTimeout names is pending; old, the
                 \* number of pending timeouts armed before that one
  delivered,     \* chunks the device has sent
  pk,            \* the markers of the plot (shapes, annotations,
                 \* peakConfig.lines), the plotted data, prevClickLine, and
                 \* history: whether the last step ran the peak finder
  cal,           \* plot.calibration, the calibration inputs of the page,
                 \* the x axis of the plotted trace, and history: the
                 \* edits so far and the outcome of the last toggleCal
  obs            \* history: the last close() on a link that was not open,
                 \* the handler invocations so far, whether the manager
                 \* is in a pause, the last invocation that ended, the
                 \* manager that selectPort replaced last, whether a
                 \* hideConsole has returned at its guard during a
                 \* spectrum recording

framerVars == <<orderType, sm, now, fed>>

sessionVars ==
  <<port, link, lock, loops, calls, spectrum, refreshTimers, delivered, obs>>

vars == <<orderType, sm, now, fed, port, link, lock, loops, calls, spectrum,
          refreshTimers, delivered, cal, pk, obs>>

\* a SerialManager as its constructor leaves it; closed names the loop whose
\* promise this.closed holds, 0 for undefined; maxSize is the static
\* SerialManager.maxSize, which the settings of the page set
NewSerialManager ==
  [recording |-> FALSE, onlyConsole |-> TRUE, startTime |-> 0, timeDone |-> 0,
   rawConsoleData |-> <<>>, rawData |-> <<>>, bufferPulseData |-> <<>>,
   baseHist |-> <<>>, closed |-> 0, maxSize |-> maxSize]

MaxLoops == 2

MaxCalls == 2

Loops == 1..MaxLoops

\* the length of the receive buffer of WebUSBSerial (102400 in the code)
bufferLength == 16

\* a transport as its constructor leaves it: isOpen = false, no reader
\* (WebSerial), pos = 0 (WebUSBSerial; buf is buffer[0..pos))
NewPort(kind) == [kind |-> kind, isOpen |-> FALSE, reader |-> 0, buf |-> <<>>]

\* a handler invocation that waits: op is the SerialManager method it
\* called, pc the wait it is in (openWait: port.open, closeWait: port.close,
\* closedWait: this.closed), ok the result port.open will have, waitFor the
\* loop whose promise it awaits.  An invocation whose method returns at its
\* guard, or that meets no wait, begins and ends within one step.
Waiting(op, pc, resume, ok, waitFor) ==
  [op |-> op, pc |-> pc, resume |-> resume, ok |-> ok, waitFor |-> waitFor]

\* how an invocation that got past the guard of its method ended
Ended(op, resume, outcome) ==
  [op |-> op, resume |-> resume, outcome |-> outcome]

\* the manager that serRecorder named before selectPort replaced it, as it
\* was at that moment: its recording flag, whether its transport was open,
\* whether one of its read loops was running
Replaced(happened, recording, isOpen, loopRunning) ==
  [happened |-> happened, recording |-> recording, isOpen |-> isOpen,
   loopRunning |-> loopRunning]

NoObs ==
  [close |-> [called |-> FALSE, touched |-> FALSE, threw |-> FALSE],
   clicks |-> 0, paused |-> FALSE, ended |-> Ended("none", FALSE, "none"),
   replaced |-> Replaced(FALSE, FALSE, FALSE, FALSE), ignored |-> FALSE]

\* the harness history: the chunks fed, the elements accepted for the
\* pending samples, whether a drain, a saturation drop or a reset of the
\* frame buffer has happened, the last call and the manager before it,
\* the number of samples handed to addPulseData, the sum of the arrays
\* handed to addHist, the spectrum before the last refresh, and the first
\* histogram baseline of the recording, the bytes handed to the receive
\* callback of the WebUSB transport and the bytes its read() has returned
NoFeed ==
  [chunks |-> <<>>, elems |-> <<>>, drained |-> FALSE, dropped |-> FALSE,
   cut |-> FALSE, last |-> "none", before |-> NewSerialManager,
   ingested |-> 0, sums |-> <<>>, target |-> <<>>, base0 |-> <<>>,
   handed |-> <<>>, got |-> <<>>]

\* the manager of a spectrum recording that has received nothing yet
FreshRecording ==
  [NewSerialManager EXCEPT !.recording = TRUE, !.onlyConsole = FALSE]

\* the calibration of a new page: nothing typed, the checkbox unchecked,
\* no plot yet
NewCal ==
  [enabled |-> FALSE, checked |-> FALSE, points |-> NoPoints,
   inputs |-> [adcA |-> <<>>, calA |-> <<>>, adcB |-> <<>>, calB |-> <<>>,
               adcC |-> <<>>, calC |-> <<>>],
   axis |-> <<>>, edits |-> 0, last |-> "none"]

\* the plot before any data: no marker, no clicked line, the peak finder in
\* energy mode, no isotope table (isoList = {})
NewMarkers ==
  [shapes |-> <<>>, annotations |-> <<>>, lines |-> <<>>, lastDataY |-> <<>>,
   prevClickLine |-> NoLine, ran |-> FALSE,
   mode |-> 0, isoList |-> <<>>, seeks |-> <<>>,
   sma |-> FALSE, smaLength |-> 8, trace |-> <<>>, smoothed |-> <<>>,
   smaReads |-> {}]

\* no refreshRender timeout is pending
NoTimers == [cur |-> FALSE, old |-> 0]

\* the number of pending refreshRender timeouts
PendingTimers(t) == t.old + (IF t.cur THEN 1 ELSE 0)

SessionInitVars ==
  /\ cal = NewCal
  /\ pk = NewMarkers
  /\ link = "closed"
  /\ lock = 0
  /\ loops = [l \in Loops |-> "free"]
  /\ calls = {}
  /\ spectrum = <<>>
  /\ refreshTimers = NoTimers
  /\ delivered = 0
  /\ obs = NoObs

\* ------------------------------------------------------------------------
\* Sessions: the transports, the read loop and the handlers.
\*
\* JavaScript runs one task at a time; an action is what one task does until
\* it waits for the browser (port.open, reader.read, port.close, a timer).
\* A step of a handler and the continuations that follow it without such a
\* wait are one action.  `w` is the part of the state these operators
\* change.
\* ------------------------------------------------------------------------
World ==
  [sm |-> sm, port |-> port, link |-> link, lock |-> lock, loops |-> loops,
   obs |-> obs]

SetWorld(w) ==
  /\ sm' = w.sm
  /\ port' = w.port
  /\ link' = w.link
  /\ lock' = w.lock
  /\ loops' = w.loops
  /\ obs' = w.obs

Running ==
  {"reading", "sleepNoValue", "sleepErr", "sleepIdle", "closeOk", "closeErr"}

\* this.reader?.releaseLock(); this.reader = undefined.  The lock of the
\* reader that this.reader names is released; a read still pending on that
\* reader is rejected, which sends its loop to the catch branch of read().
ReleaseThisReader(w) ==
  LET j == w.port.reader
  IN IF j = 0 THEN w
     ELSE [w EXCEPT !.lock = IF @ = j THEN 0 ELSE @,
                    !.port.reader = 0,
                    !.loops[j] = IF @ = "reading" THEN "sleepErr" ELSE @]

\* a close() call is seen: one made while the link is not open is recorded
\* with whether it went on to act on the link and whether it failed
CloseSeen(w, touched, threw) ==
  IF w.link = "open" THEN w
  ELSE [w EXCEPT !.obs.close = [called |-> TRUE, touched |-> touched,
                                threw |-> threw]]

\* WebSerial.close.  reader.cancel() ends the pending read with done = true
\* (its loop goes on to the 10 ms wait) and the port gets a fresh readable;
\* port.close() closes an open link and rejects on a link that is not open;
\* lostThrows: whether the browser rejects the close of a lost link.
WebSerialClose(w, lostThrows) ==
  IF ~w.port.isOpen
    THEN [w |-> CloseSeen(w, FALSE, FALSE), threw |-> FALSE]
    ELSE LET r == w.port.reader
             w1 == [w EXCEPT !.port.isOpen = FALSE]
             w2 == IF r = 0 THEN w1
                   ELSE [w1 EXCEPT !.loops[r] = IF @ = "reading"
                                                  THEN "sleepNoValue" ELSE @,
                                   !.lock = IF @ = r THEN 0 ELSE @]
             threw == IF w.link = "open" THEN FALSE ELSE lostThrows
             w3 == [CloseSeen(w2, TRUE, threw)
                      EXCEPT !.link = IF @ = "open" THEN "closed" ELSE @]
         IN [w |-> w3, threw |-> threw]

\* the receive callback of WebUSBSerial.open: buffer.set(data, pos), then
\* pos += data.length.  buffer.set throws a RangeError, before it writes
\* anything, when data does not fit behind pos; pos then stays.
UsbCallback(p, data) ==
  IF Len(p.buf) + Len(data) > bufferLength THEN p
  ELSE [p EXCEPT !.buf = @ \o data]

\* WebUSBSerial.read once its wait, if any, is over: the transport after
\* the call and the bytes returned (buffer[0..pos), none when pos = 0)
WebUSBSerialRead(p) == [port |-> [p EXCEPT !.buf = <<>>], ret |-> p.buf]

\* WebUSBSerial.close
WebUSBSerialClose(w) ==
  IF ~w.port.isOpen
    THEN [w |-> CloseSeen(w, FALSE, FALSE), threw |-> FALSE]
    ELSE [w |-> [CloseSeen(w, TRUE, FALSE)
                   EXCEPT !.port.isOpen = FALSE,
                          !.link = IF @ = "open" THEN "closed" ELSE @],
          threw |-> FALSE]

\* this.port.close()
PortClose(w, lostThrows) ==
  IF w.port.kind = "serial" THEN WebSerialClose(w, lostThrows)
  ELSE WebUSBSerialClose(w)

\* readUntilClosed after its while loop: await this.port?.close()
LoopExit(w, l, lostThrows) ==
  LET r == PortClose(w, lostThrows)
  IN [r.w EXCEPT !.loops[l] = IF r.threw THEN "rejected" ELSE "resolved"]

\* readUntilClosed from the test of its while loop to the next wait
\* (WebSerial.read, WebUSBSerial.read and addRaw included).  A WebSerial
\* read that finds port.readable null awaits this.close(): the loop waits
\* for port.close to settle, fulfilled (closeOk) or rejected (closeErr).
LoopRun(w, l, order, t, lostThrows) ==
  IF ~(w.port.isOpen /\ w.sm.recording) THEN LoopExit(w, l, lostThrows)
  ELSE IF w.port.kind = "usb"
    THEN IF w.port.buf = <<>>
           THEN [w EXCEPT !.loops[l] = "sleepIdle"]
           ELSE LET w1 == [w EXCEPT !.sm = addRaw(@, w.port.buf, order, t),
                                    !.port.buf = <<>>]
                IN IF w1.port.isOpen /\ w1.sm.recording
                     THEN [w1 EXCEPT !.loops[l] = "sleepIdle"]
                     ELSE LoopExit(w1, l, lostThrows)
  ELSE IF w.link = "open"
    THEN IF w.lock # 0
           THEN [ReleaseThisReader(w) EXCEPT !.loops[l] = "sleepErr"]
           ELSE [w EXCEPT !.lock = l, !.port.reader = l, !.loops[l] = "reading"]
  ELSE LET r == WebSerialClose(w, lostThrows)
       IN [r.w EXCEPT !.loops[l] = IF r.threw THEN "closeErr" ELSE "closeOk"]

\* a loop that takes an empty chunk for the end of the stream
AfterReadEndsOnEmpty(w, l, uintArray, order, t, lostThrows) ==
  IF uintArray = <<>> THEN LoopExit(w, l, lostThrows)
  ELSE LoopRun([w EXCEPT !.sm = addRaw(@, uintArray, order, t)], l, order, t,
               lostThrows)

\* a read has returned uintArray to the loop: addRaw, then the loop goes on
AfterRead(w, l, uintArray, order, t, lostThrows) ==
  LoopRun([w EXCEPT !.sm = addRaw(@, uintArray, order, t)], l, order, t,
          lostThrows)

\* one more handler invocation has begun
Clicked(w) == [w EXCEPT !.obs.clicks = @ + 1]

\* ------------------------------------------------------------------------
\* Session actions
\* ------------------------------------------------------------------------
MaxTime == 1

MaxReads == 1

MaxTimers == 3

MaxClicks == 3

\* what the device sends in one read
SessionChunks(order) ==
  IF order = "chron" THEN { <<B_1, B_SEMI, B_0, B_SEMI, B_1, B_SEMI>> }
  ELSE { <<B_1, B_SEMI, B_2, B_SEMI, B_CR, B_LF,
           B_2, B_SEMI, B_2, B_SEMI, B_CR, B_LF>> }

SessionInit ==
  /\ orderType \in {"chron", "hist"}
  /\ sm = NewSerialManager
  /\ now = 0
  /\ fed = NoFeed
  /\ port \in {NewPort("serial"), NewPort("usb")}
  /\ SessionInitVars

\* a loop slot that holds no running loop and that no handler awaits
FreeLoop(l) ==
  /\ loops[l] \notin Running
  /\ \A c \in calls : ~(c.pc = "closedWait" /\ c.waitFor = l)
  /\ \A k \in Loops :
       (k < l) => \/ loops[k] \in Running
                  \/ \E c \in calls : c.pc = "closedWait" /\ c.waitFor = k

\* one more handler invocation can begin
CanBegin ==
  /\ obs.clicks < MaxClicks
  /\ Cardinality(calls) < MaxCalls

\* the spectrum after spectrumData.addHist / addPulseData of refreshRender
Accumulate(target, newData) ==
  IF orderType = "hist" THEN addHist(target, newData)
  ELSE IF orderType = "chron" THEN addPulseData(target, newData)
  ELSE target

\* refreshTimeout = setTimeout(refreshRender, ...): one more timeout is
\* pending and refreshTimeout names it; a timeout armed before stays
\* pending under an id that no variable holds (a run arms no more than
\* MaxTimers timeouts at a time)
SetRefreshTimeout(timers) ==
  IF PendingTimers(timers) < MaxTimers
    THEN [cur |-> TRUE, old |-> PendingTimers(timers)]
    ELSE timers

\* clearTimeout(refreshTimeout)
ClearRefreshTimeout(timers) == [timers EXCEPT !.cur = FALSE]

\* main.ts refreshRender(type) on the world w and the spectrum target:
\* with the port open it drains the pending buffer into the spectrum and
\* arms its next timeout
RefreshRenderEffect(w, target, timers) ==
  IF w.port.isOpen
    THEN [w |-> [w EXCEPT !.sm = getData(@)],
          spectrum |-> Accumulate(target, w.sm.bufferPulseData),
          timers |-> SetRefreshTimeout(timers)]
    ELSE [w |-> w, spectrum |-> target, timers |-> timers]

\* main.ts startRecord(pause, type) after serRecorder.startRecord returned:
\* removeFile(type) unless resuming, then refreshRender(type, !pause)
AfterStartRecord(w, resume) ==
  RefreshRenderEffect(w, IF resume THEN spectrum ELSE <<>>, refreshTimers)

\* main.ts readSerial after serRecorder.showConsole returned
AfterShowConsole(w) == [w |-> w, spectrum |-> spectrum, timers |-> refreshTimers]

\* a startRecord that flushes whether or not it resumes
ManagerStartedFlushing(w, op, resume, l, lostThrows) ==
  LET m0 == w.sm
      m1 == IF op = "startRecord"
              THEN [[clearBaseHist(flushData(m0)) EXCEPT !.timeDone = 0]
                      EXCEPT !.startTime = now, !.recording = TRUE,
                             !.onlyConsole = FALSE]
              ELSE [m0 EXCEPT !.recording = TRUE, !.onlyConsole = TRUE]
      w1 == [w EXCEPT !.sm = [m1 EXCEPT !.closed = l], !.obs.paused = FALSE]
  IN LoopRun(w1, l, orderType, now, lostThrows)

\* SerialManager.startRecord / showConsole once port.open has succeeded, up
\* to the first wait of the read loop l it starts
ManagerStarted(w, op, resume, l, lostThrows) ==
  LET m0 == w.sm
      m1 == IF op = "startRecord"
              THEN LET mf == IF resume THEN m0
                             ELSE [clearBaseHist(flushData(m0))
                                     EXCEPT !.timeDone = 0]
                   IN [mf EXCEPT !.startTime = now, !.recording = TRUE,
                                 !.onlyConsole = FALSE]
              ELSE [m0 EXCEPT !.recording = TRUE, !.onlyConsole = TRUE]
      w1 == [w EXCEPT !.sm = [m1 EXCEPT !.closed = l], !.obs.paused = FALSE]
  IN LoopRun(w1, l, orderType, now, lostThrows)

\* the handler's work from a successful open to its end
StartOpened(op, resume, w, others) ==
  \E l \in Loops, lostThrows \in BOOLEAN :
    /\ FreeLoop(l)
    /\ LET w2 == ManagerStarted(w, op, resume, l, lostThrows)
           r == IF op = "startRecord" THEN AfterStartRecord(w2, resume)
                ELSE AfterShowConsole(w2)
       IN /\ SetWorld([r.w EXCEPT !.obs.ended = Ended(op, resume, "returned")])
          /\ spectrum' = r.spectrum
          /\ refreshTimers' = r.timers
    /\ calls' = others
    /\ UNCHANGED <<cal, pk, orderType, now, fed, delivered>>

\* WebUSBSerial.open: a new WebUSBSerialPort, pos = 0, connect, isOpen = true
WebUSBSerialOpen(w) ==
  [w EXCEPT !.port.buf = <<>>, !.port.isOpen = TRUE,
            !.link = IF @ = "closed" THEN "open" ELSE @]

\* a click on record / resume (main.ts startRecord) or the opening of the
\* console (readSerial): the handler up to its wait for port.open
StartBegin(op, resume) ==
  /\ CanBegin
  /\ IF sm.recording
       THEN LET r == IF op = "startRecord"
                       THEN AfterStartRecord(Clicked(World), resume)
                     ELSE AfterShowConsole(Clicked(World))
            IN /\ SetWorld(r.w)
               /\ spectrum' = r.spectrum
               /\ refreshTimers' = r.timers
               /\ UNCHANGED <<cal, pk, orderType, now, fed, calls, delivered>>
       ELSE IF port.kind = "usb"
         THEN StartOpened(op, resume, WebUSBSerialOpen(Clicked(World)), calls)
         ELSE /\ link' = IF link = "closed" THEN "open" ELSE link
              /\ calls' = calls \cup {Waiting(op, "openWait", resume,
                                              link = "closed", 0)}
              /\ obs' = Clicked(World).obs
              /\ UNCHANGED <<cal, pk, orderType, sm, now, fed, port, lock, loops,
                             spectrum, refreshTimers, delivered>>

\* a manager that goes on as if port.open had succeeded when it has failed
StartContIgnoringFailure(c) ==
  /\ c.pc = "openWait"
  /\ StartOpened(c.op, c.resume, World, calls \ {c})

\* WebSerial: port.open has settled
StartCont(c) ==
  /\ c.pc = "openWait"
  /\ IF c.ok
       THEN StartOpened(c.op, c.resume, [World EXCEPT !.port.isOpen = TRUE],
                        calls \ {c})
       ELSE /\ calls' = calls \ {c}
            /\ obs' = [obs EXCEPT !.ended = Ended(c.op, c.resume, "threw")]
            /\ UNCHANGED <<cal, pk, orderType, sm, now, fed, port, link, lock, loops,
                           spectrum, refreshTimers, delivered>>

\* a click on pause / stop (main.ts disconnectPort): clearTimeout, then
\* SerialManager.stopRecord up to its wait for port.close (WebSerial) or for
\* this.closed (WebUSB, whose close does not wait)
StopBegin ==
  /\ CanBegin
  /\ refreshTimers' = ClearRefreshTimeout(refreshTimers)
  /\ IF ~sm.recording
       THEN /\ obs' = Clicked(World).obs
            /\ UNCHANGED <<sm, port, link, lock, loops, calls>>
       ELSE \E lostThrows \in BOOLEAN :
              LET w1 == [Clicked(World) EXCEPT
                           !.obs.paused = ~sm.onlyConsole,
                           !.sm.recording = FALSE,
                           !.sm.timeDone = @ + (now - sm.startTime)]
                  r == PortClose(w1, lostThrows)
              IN /\ SetWorld(r.w)
                 /\ calls' = calls \cup
                      {IF port.kind = "usb"
                         THEN Waiting("stopRecord", "closedWait", FALSE, FALSE,
                                      sm.closed)
                         ELSE Waiting("stopRecord", "closeWait", FALSE, FALSE, 0)}
  /\ UNCHANGED <<cal, pk, orderType, now, fed, spectrum, delivered>>

\* WebSerial: port.close has settled (a rejection is caught); stopRecord
\* goes on to await this.closed
StopAfterClose(c) ==
  /\ c.pc = "closeWait"
  /\ calls' = (calls \ {c}) \cup
                 {Waiting(c.op, "closedWait", FALSE, FALSE, sm.closed)}
  /\ UNCHANGED <<cal, pk, orderType, sm, now, fed, port, link, lock, loops, spectrum,
                 refreshTimers, delivered, obs>>

\* the console is closed: SerialManager.hideConsole up to await this.closed;
\* port.close() is called and not awaited
HideBegin ==
  /\ CanBegin
  /\ IF ~sm.recording \/ ~sm.onlyConsole
       THEN /\ obs' = [Clicked(World).obs EXCEPT !.ignored = @ \/ sm.recording]
            /\ UNCHANGED <<sm, port, link, lock, loops, calls>>
       ELSE \E lostThrows \in BOOLEAN :
              LET w1 == [Clicked(World) EXCEPT !.obs.paused = FALSE,
                                               !.sm.onlyConsole = FALSE,
                                               !.sm.recording = FALSE]
                  r == PortClose(w1, lostThrows)
              IN /\ SetWorld(r.w)
                 /\ calls' = calls \cup
                      {Waiting("hideConsole", "closedWait", FALSE, FALSE,
                               sm.closed)}
  /\ UNCHANGED <<cal, pk, orderType, now, fed, spectrum, refreshTimers, delivered>>

\* await this.closed: the awaited readUntilClosed promise has settled and
\* the handler ends
AwaitClosed(c) ==
  /\ c.pc = "closedWait"
  /\ \/ c.waitFor = 0
     \/ loops[c.waitFor] \in {"resolved", "rejected"}
  /\ calls' = calls \ {c}
  /\ obs' = [obs EXCEPT !.ended =
               Ended(c.op, FALSE,
                     IF c.waitFor # 0 /\ loops[c.waitFor] = "rejected"
                       THEN "threw" ELSE "returned")]
  /\ UNCHANGED <<cal, pk, orderType, sm, now, fed, port, link, lock, loops, spectrum,
                 refreshTimers, delivered>>

\* ------------------------------------------------------------------------
\* The device, the timers and the clock
\* ------------------------------------------------------------------------
\* WebSerial: reader.read() resolves with a chunk; the finally block
\* releases this.reader, addRaw takes the chunk and the loop goes on
DataArrives(l, chunk) ==
  /\ port.kind = "serial" /\ loops[l] = "reading" /\ lock = l
  /\ link = "open" /\ delivered < MaxReads
  /\ \E lostThrows \in BOOLEAN :
       SetWorld(AfterRead(ReleaseThisReader([World EXCEPT !.loops[l] = "run"]),
                          l, chunk, orderType, now, lostThrows))
  /\ delivered' = delivered + 1
  /\ UNCHANGED <<cal, pk, orderType, now, fed, calls, spectrum, refreshTimers>>

\* WebUSB: the receive callback of port.connect runs
UsbReceive(chunk) ==
  /\ port.kind = "usb" /\ link = "open" /\ delivered < MaxReads
  /\ port' = UsbCallback(port, chunk)
  /\ delivered' = delivered + 1
  /\ UNCHANGED <<cal, pk, orderType, sm, now, fed, link, lock, loops, calls, spectrum,
                 refreshTimers, obs>>

\* the timeout a read waits on has elapsed: 10 ms after a read without a
\* value (the finally block then releases this.reader), 100 ms after a read
\* error, 100 ms of WebUSB idle wait; read returns an empty chunk
TimerFires(l) ==
  /\ loops[l] \in {"sleepNoValue", "sleepErr", "sleepIdle"}
  /\ \E lostThrows \in BOOLEAN :
       LET w0 == [World EXCEPT !.loops[l] = "run"]
           w1 == IF loops[l] = "sleepNoValue" THEN ReleaseThisReader(w0) ELSE w0
       IN SetWorld(AfterRead(w1, l, <<>>, orderType, now, lostThrows))
  /\ UNCHANGED <<cal, pk, orderType, now, fed, calls, spectrum, refreshTimers, delivered>>

\* WebSerial: the port.close that read() awaits has settled: fulfilled, read
\* returns an empty chunk; rejected, read and readUntilClosed reject
CloseReturns(l) ==
  /\ loops[l] \in {"closeOk", "closeErr"}
  /\ IF loops[l] = "closeErr"
       THEN SetWorld([World EXCEPT !.loops[l] = "rejected"])
       ELSE \E lostThrows \in BOOLEAN :
              SetWorld(AfterRead([World EXCEPT !.loops[l] = "run"], l, <<>>,
                                 orderType, now, lostThrows))
  /\ UNCHANGED <<cal, pk, orderType, now, fed, calls, spectrum, refreshTimers, delivered>>

\* the device is unplugged.  WebSerial: pending reads are rejected, their
\* finally and catch blocks release this.reader and wait 100 ms, and
\* port.readable is null from now on.  WebUSB: the error callback of
\* port.connect sets isOpen = false.
Unplug ==
  /\ link \in {"open", "closed"}
  /\ link' = "lost"
  /\ IF port.kind = "serial"
       THEN /\ loops' = [l \in Loops |->
                           IF loops[l] = "reading" THEN "sleepErr" ELSE loops[l]]
            /\ lock' = 0
            /\ port' = IF \E l \in Loops : loops[l] = "reading"
                         THEN [port EXCEPT !.reader = 0] ELSE port
       ELSE /\ port' = [port EXCEPT !.isOpen = FALSE]
            /\ UNCHANGED <<loops, lock>>
  /\ UNCHANGED <<cal, pk, orderType, sm, now, fed, calls, spectrum, refreshTimers,
                 delivered, obs>>

\* a refreshRender timeout fires (main.ts refreshRender): with the port
\* open it drains and re-arms itself, otherwise its chain ends
RefreshRender ==
  /\ \E latest \in BOOLEAN :
       /\ IF latest THEN refreshTimers.cur ELSE refreshTimers.old > 0
       /\ LET fired == IF latest THEN [refreshTimers EXCEPT !.cur = FALSE]
                       ELSE [refreshTimers EXCEPT !.old = @ - 1]
              r == RefreshRenderEffect(World, spectrum, fired)
          IN /\ SetWorld(r.w)
             /\ spectrum' = r.spectrum
             /\ refreshTimers' = r.timers
  /\ UNCHANGED <<cal, pk, orderType, now, fed, calls, delivered>>

\* time passes; performance.now() is read during a recording only
Tick ==
  /\ sm.recording
  /\ now < MaxTime
  /\ now' = now + 1
  /\ UNCHANGED <<cal, pk, orderType, sm, fed, port, link, lock, loops, calls, spectrum,
                 refreshTimers, delivered, obs>>

StartRecordClick == \E resume \in BOOLEAN : StartBegin("startRecord", resume)

ShowConsoleOpen == StartBegin("showConsole", FALSE)

OpenSettled == \E c \in calls : StartCont(c)

StopClick == StopBegin

CloseSettled == \E c \in calls : StopAfterClose(c)

HideConsoleClose == HideBegin

ClosedSettled == \E c \in calls : AwaitClosed(c)

SerialData == \E l \in Loops, chunk \in SessionChunks(orderType) : DataArrives(l, chunk)

UsbData == \E chunk \in SessionChunks(orderType) : UsbReceive(chunk)

ReadTimeout == \E l \in Loops : TimerFires(l)

ReadCloseSettled == \E l \in Loops : CloseReturns(l)

SessionNext ==
  \/ StartRecordClick
  \/ ShowConsoleOpen
  \/ OpenSettled
  \/ StopClick
  \/ CloseSettled
  \/ HideConsoleClose
  \/ ClosedSettled
  \/ SerialData
  \/ UsbData
  \/ ReadTimeout
  \/ ReadCloseSettled
  \/ Unplug
  \/ RefreshRender
  \/ Tick

SpecSession == SessionInit /\ [][SessionNext]_vars

\* ------------------------------------------------------------------------
\* Another port: the port selector names a port other than the manager's
\* when record / resume is clicked or the console is opened.
\* ------------------------------------------------------------------------
\* main.ts selectPort with a selector that names another port of the given
\* kind: serRecorder = new SerialManager(newport); clearConsoleLog().  The
\* page keeps no reference to the manager it replaces; `w` goes on with the
\* new manager, its transport and its loops, and records how the replaced
\* manager was left.
selectPort(w, kind) ==
  [w EXCEPT !.sm = flushRawData(NewSerialManager),
            !.port = NewPort(kind),
            !.link = "closed",
            !.lock = 0,
            !.loops = [l \in Loops |-> "free"],
            !.obs.paused = FALSE,
            !.obs.replaced = Replaced(TRUE, w.sm.recording, w.port.isOpen,
                                      \E l \in Loops : w.loops[l] \in Running)]

\* main.ts startRecord / readSerial with another port selected: selectPort,
\* then SerialManager.startRecord / showConsole on the new manager up to
\* its wait for port.open.  The invocations that still wait on the replaced
\* manager end on it and are followed no further.
StartOnOtherPort(op, resume, kind) ==
  /\ CanBegin
  /\ LET w0 == selectPort(Clicked(World), kind)
     IN IF kind = "usb"
          THEN \E lostThrows \in BOOLEAN :
                 LET w2 == ManagerStarted(WebUSBSerialOpen(w0), op, resume, 1,
                                          lostThrows)
                     r == IF op = "startRecord" THEN AfterStartRecord(w2, resume)
                          ELSE AfterShowConsole(w2)
                 IN /\ SetWorld([r.w EXCEPT
                                   !.obs.ended = Ended(op, resume, "returned")])
                    /\ spectrum' = r.spectrum
                    /\ refreshTimers' = r.timers
                    /\ calls' = {}
          ELSE /\ SetWorld([w0 EXCEPT !.link = "open"])
               /\ calls' = {Waiting(op, "openWait", resume, TRUE, 0)}
               /\ UNCHANGED <<spectrum, refreshTimers>>
  /\ UNCHANGED <<cal, pk, orderType, now, fed, delivered>>

OtherPortClick ==
  \E op \in {"startRecord", "showConsole"}, resume \in BOOLEAN,
     kind \in {"serial", "usb"} :
    /\ op = "showConsole" => ~resume
    /\ StartOnOtherPort(op, resume, kind)

PortsNext == SessionNext \/ OtherPortClick

SpecPorts == SessionInit /\ [][PortsNext]_vars

\* ------------------------------------------------------------------------
\* Transport harness: open, read and close called on a WebUSBSerial while
\* the device sends; the bytes are numbered in the order of their arrival.
\* ------------------------------------------------------------------------
MaxUsbBytes == 24

UsbInit ==
  /\ orderType = "chron"
  /\ sm = NewSerialManager
  /\ now = 0
  /\ fed = NoFeed
  /\ port = NewPort("usb")
  /\ SessionInitVars

UsbOpens ==
  /\ ~port.isOpen
  /\ SetWorld(WebUSBSerialOpen(World))
  /\ UNCHANGED <<cal, pk, orderType, now, fed, calls, spectrum, refreshTimers,
                 delivered>>

UsbCallbackRuns ==
  \E n \in {4, 8} :
    /\ link = "open"
    /\ Len(fed.handed) + n <= MaxUsbBytes
    /\ LET data == [i \in 1..n |-> Len(fed.handed) + i]
       IN /\ port' = UsbCallback(port, data)
          /\ fed' = [fed EXCEPT !.handed = @ \o data, !.last = "callback"]
    /\ UNCHANGED <<cal, pk, orderType, sm, now, link, lock, loops, calls,
                   spectrum, refreshTimers, delivered, obs>>

UsbReads ==
  /\ port.isOpen
  /\ LET r == WebUSBSerialRead(port)
     IN /\ port' = r.port
        /\ fed' = [fed EXCEPT !.got = @ \o r.ret, !.last = "read"]
  /\ UNCHANGED <<cal, pk, orderType, sm, now, link, lock, loops, calls,
                 spectrum, refreshTimers, delivered, obs>>

UsbCloses ==
  /\ port.isOpen
  /\ SetWorld(WebUSBSerialClose(World).w)
  /\ UNCHANGED <<cal, pk, orderType, now, fed, calls, spectrum, refreshTimers,
                 delivered>>

UsbNext == UsbOpens \/ UsbCallbackRuns \/ UsbReads \/ UsbCloses

SpecUsb == UsbInit /\ [][UsbNext]_vars

\* ------------------------------------------------------------------------
\* Framer harness: addRaw and getData called on a manager whose session has
\* started (showConsole or startRecord(false) has completed)
\* ------------------------------------------------------------------------
MaxPieces == 4

\* a token of maxLength characters whose value is 1
LongToken == [i \in 1..maxLength |-> IF i = maxLength THEN B_1 ELSE B_0]

\* a run of digits longer than maxLength with no delimiter, then two frames
LongHead ==
  [i \in 1..(maxLength + 4) |-> B_0] \o <<B_SEMI, B_1, B_SEMI, B_2, B_SEMI>>

\* two frames, then a run of digits longer than maxLength with no delimiter
LongTail ==
  <<B_1, B_SEMI, B_2, B_SEMI>> \o [i \in 1..(maxLength + 5) |-> B_0]

ChronPieces ==
  { <<B_SEMI>>, <<B_1>>, <<B_2>>, <<B_a>>, <<B_SP>>, <<B_MINUS>>,
    <<B_1, B_SEMI>>, LongToken, <<B_1, B_SEMI, B_2, B_SEMI>> }

\* chunks of a link that sends long runs without a delimiter
LongChronPieces ==
  { LongHead, LongTail, LongToken, <<B_SEMI>>, <<B_1>>,
    <<B_1, B_SEMI, B_2, B_SEMI>> }

\* a line of two tokens that is maxHistLength characters long
LongRow ==
  [i \in 1..(maxHistLength + 2) |->
     IF i = maxHistLength - 3 THEN B_1
     ELSE IF i = maxHistLength - 2 THEN B_SEMI
     ELSE IF i = maxHistLength - 1 THEN B_2
     ELSE IF i = maxHistLength THEN B_SEMI
     ELSE IF i = maxHistLength + 1 THEN B_CR
     ELSE IF i = maxHistLength + 2 THEN B_LF
     ELSE B_0]

\* the start of a line, maxHistLength characters with no line end
LongPartial == [i \in 1..maxHistLength |-> IF i % 2 = 0 THEN B_SEMI ELSE B_1]

HistPieces ==
  { <<B_1, B_SEMI, B_2, B_SEMI, B_CR, B_LF>>,
    <<B_2, B_SEMI, B_2, B_SEMI, B_CR, B_LF>>,
    <<B_FF, B_SEMI, B_1, B_SEMI, B_CR, B_LF>>,
    <<B_1, B_SEMI, B_CR, B_LF>>,
    <<B_1, B_SEMI>>,
    <<B_CR, B_LF>>,
    <<B_1, B_SEMI, B_1, B_SEMI, B_CR, B_LF, B_2, B_SEMI, B_1, B_SEMI, B_CR, B_LF>>,
    LongRow }

LongHistPieces ==
  { LongPartial, LongRow, <<B_1, B_SEMI>>, <<B_CR, B_LF>>,
    <<B_1, B_SEMI, B_2, B_SEMI, B_3, B_CR, B_LF>>,
    <<B_1, B_SEMI, B_2, B_SEMI, B_CR, B_LF>>,
    <<B_1, B_SEMI, B_1, B_SEMI, B_CR, B_LF, B_2, B_SEMI, B_1, B_SEMI, B_CR, B_LF>> }

Pieces(order) == IF order = "chron" THEN ChronPieces ELSE HistPieces

LongPieces(order) ==
  IF order = "chron" THEN LongChronPieces ELSE LongHistPieces

\* the elements a chronological addRaw call pushes as samples
ChronPushed(m, uintArray) ==
  LET stringArr == ChronArr(m.rawData \o Decode(uintArray))
  IN IF m.onlyConsole \/ Len(m.bufferPulseData) > m.maxSize \/ Len(stringArr) <= 1
       THEN <<>>
       ELSE SelectSeq(stringArr, ChronAccepts)

FramerInit ==
  /\ orderType \in {"chron", "hist"}
  /\ \E console \in BOOLEAN :
       sm = [FreshRecording EXCEPT !.onlyConsole = console]
  /\ now = 0
  /\ fed = NoFeed
  /\ port = [NewPort("serial") EXCEPT !.isOpen = TRUE]
  /\ SessionInitVars

\* the length limit of the frame buffer in the wire mode
FrameLimit == IF orderType = "chron" THEN maxLength ELSE maxHistLength

\* addRaw(p) on the manager m goes on to the frame buffer (m is neither
\* console-only nor saturated) and finds no frame to decode in it
FoundNoFrame(m, p) ==
  /\ ~m.onlyConsole
  /\ Len(m.bufferPulseData) <= m.maxSize
  /\ IF orderType = "chron"
       THEN Len(ChronArr(m.rawData \o Decode(p))) <= 1
       ELSE Pop(Split(m.rawData \o Decode(p), CRLF)) = <<>>

\* one chunk arrives: this.addRaw(chunk)
Feed(p) ==
  /\ Len(fed.chunks) < MaxPieces
  /\ sm' = addRaw(sm, p, orderType, now)
  /\ fed' = [fed EXCEPT !.chunks = Append(@, p),
                        !.elems = IF orderType = "chron"
                                    THEN @ \o ChronPushed(sm, p) ELSE @,
                        !.dropped = @ \/ Len(sm.bufferPulseData) > sm.maxSize,
                        !.base0 = IF @ = <<>>
                                    THEN addRaw(sm, p, orderType, now).baseHist
                                    ELSE @,
                        !.cut = @ \/ ( /\ FoundNoFrame(sm, p)
                                       /\ Len(sm.rawData) + Len(p) > FrameLimit ),
                        !.last = "addRaw",
                        !.before = sm]
  /\ UNCHANGED <<cal, pk, orderType, now>>
  /\ UNCHANGED sessionVars

FeedChunk == \E p \in Pieces(orderType) : Feed(p)

\* the refresh timer drains: this.getData()
Drain ==
  /\ fed.last = "addRaw"
  /\ sm' = getData(sm)
  /\ fed' = [fed EXCEPT !.elems = <<>>, !.drained = TRUE, !.last = "getData",
                        !.before = sm]
  /\ UNCHANGED <<cal, pk, orderType, now>>
  /\ UNCHANGED sessionVars

FramerNext == FeedChunk \/ Drain

Spec == FramerInit /\ [][FramerNext]_vars

\* the same harness on a link that sends long runs without a delimiter
FeedLongChunk == \E p \in LongPieces(orderType) : Feed(p)

LongNext == FeedLongChunk \/ Drain

SpecLong == FramerInit /\ [][LongNext]_vars

\* the sum of the histogram arrays handed to addHist so far
AddDeltas(sums, newHistArr) ==
  IF newHistArr = <<>> THEN sums
  ELSE IF sums = <<>> THEN newHistArr
  ELSE [i \in 1..Len(sums) |-> sums[i] + newHistArr[i]]

\* the refresh timer fires on the open port: refreshRender(type) takes the
\* pending data and adds it to the spectrum
Ingest ==
  /\ fed.last = "addRaw"
  /\ port.isOpen
  /\ sm' = getData(sm)
  /\ spectrum' = Accumulate(spectrum, sm.bufferPulseData)
  /\ fed' = [fed EXCEPT !.elems = <<>>, !.drained = TRUE, !.last = "getData",
                        !.before = sm,
                        !.ingested = IF orderType = "chron"
                                       THEN @ + Len(sm.bufferPulseData) ELSE @,
                        !.sums = IF orderType = "hist"
                                   THEN AddDeltas(@, sm.bufferPulseData) ELSE @,
                        !.target = spectrum]
  /\ UNCHANGED <<cal, pk, orderType, now>>
  /\ UNCHANGED <<port, link, lock, loops, calls, refreshTimers, delivered, obs>>

IngestNext == FeedChunk \/ Ingest

SpecIngest == FramerInit /\ [][IngestNext]_vars

\* a histogram recording under settings with a buffer ceiling below the
\* channel count (serBufferSize < serChannels): the pending buffer, once
\* allocated, is above the ceiling until the refresh takes it
SatInit ==
  /\ orderType = "hist"
  /\ sm = [FreshRecording EXCEPT !.maxSize = adcChannels - 1]
  /\ now = 0
  /\ fed = NoFeed
  /\ port = [NewPort("serial") EXCEPT !.isOpen = TRUE]
  /\ SessionInitVars

SpecSat == SatInit /\ [][IngestNext]_vars

\* ------------------------------------------------------------------------
\* The calibration page: the reference-point inputs and the apply checkbox
\* ------------------------------------------------------------------------
\* the texts a channel input and an energy input take (number inputs hold
\* a numeral or nothing)
ChannelTexts(p) ==
  IF p = "a" THEN { <<>>, <<"1", "0">> }
  ELSE IF p = "b" THEN { <<>>, <<"1", "0">>, <<"5", "0", "0">> }
  ELSE { <<>>, <<"0">>, <<"5", "0", "0">> }

EnergyTexts(p) ==
  IF p = "b" THEN { <<>>, <<"2", "0", "0", "0">> } ELSE { <<>>, <<"1", "0", "0">> }

\* the number of edits of the inputs in a run
MaxEdits == 3

\* the length of the plotted trace: element.x.length
TraceLen == 501

notCal ==
  <<orderType, sm, now, fed, port, link, lock, loops, calls, spectrum,
    refreshTimers, delivered, pk, obs>>

CalInit ==
  /\ orderType = "chron"
  /\ sm = NewSerialManager
  /\ now = 0
  /\ fed = NoFeed
  /\ port = NewPort("serial")
  /\ SessionInitVars

\* the user fills the inputs of one reference point
TypePair(p, adc, energy) ==
  /\ cal.edits < MaxEdits
  /\ cal' = [cal EXCEPT
               !.inputs = IF p = "a" THEN [@ EXCEPT !.adcA = adc, !.calA = energy]
                          ELSE IF p = "b" THEN [@ EXCEPT !.adcB = adc, !.calB = energy]
                          ELSE [@ EXCEPT !.adcC = adc, !.calC = energy],
               !.edits = @ + 1,
               !.last = "typed"]
  /\ UNCHANGED notCal

TypeInputs ==
  \E p \in {"a", "b", "c"} :
    \E adc \in ChannelTexts(p), energy \in EnergyTexts(p) :
      TypePair(p, adc, energy)

\* a click on the apply-cal checkbox: toggleCal(event.target.checked)
ApplyCalClick ==
  /\ cal' = toggleCal([cal EXCEPT !.checked = ~cal.checked], ~cal.checked,
                      TraceLen)
  /\ UNCHANGED notCal

CalNext == TypeInputs \/ ApplyCalClick

SpecCal == CalInit /\ [][CalNext]_vars

\* ------------------------------------------------------------------------
\* The plot with peak detection on: new data, clicks, redraws
\* ------------------------------------------------------------------------
\* the number of bins of the plotted data
PeakBins == 5

\* the plotted data: flat, or with bins that stand out
PeakTraces == [1..PeakBins -> {0, 4}]

notPeaks ==
  <<orderType, sm, now, fed, port, link, lock, loops, calls, spectrum,
    refreshTimers, delivered, cal, obs>>

\* plot.updatePlot(spectrumData): plotData stores the data and runs
\* peakFinder
Plotted(m, y) == [peakFinder(m, y) EXCEPT !.lastDataY = y, !.ran = TRUE]

\* new data is plotted
PlotNewData ==
  \E y \in PeakTraces :
    /\ y # pk.lastDataY
    /\ pk' = Plotted(pk, y)
    /\ UNCHANGED notPeaks

\* the plot is drawn again with the same data (changeType, toggleCps)
Replot ==
  /\ pk.lastDataY # <<>>
  /\ pk' = Plotted(pk, pk.lastDataY)
  /\ UNCHANGED notPeaks

\* main.ts clickEvent with the left button on the data point x
LeftClick ==
  \E x \in 0..(PeakBins - 1) :
    /\ pk.lastDataY # <<>>
    /\ LET m1 == IF pk.prevClickLine > 0
                   THEN toggleLine(pk, Frac(pk.prevClickLine, 1),
                                   WholeText(pk.prevClickLine), FALSE)
                   ELSE pk
           m2 == toggleLine(m1, Frac(x, 1), WholeText(x), TRUE)
       IN pk' = [Plotted(m2, pk.lastDataY) EXCEPT !.prevClickLine = x,
                                                  !.ran = FALSE]
    /\ UNCHANGED notPeaks

\* main.ts clickEvent with the right button
RightClick ==
  /\ pk.lastDataY # <<>>
  /\ LET m1 == IF pk.prevClickLine > 0
                 THEN toggleLine(pk, Frac(pk.prevClickLine, 1),
                                 WholeText(pk.prevClickLine), FALSE)
                 ELSE pk
     IN pk' = [Plotted(m1, pk.lastDataY) EXCEPT !.prevClickLine = NoLine,
                                                !.ran = FALSE]
  /\ UNCHANGED notPeaks

PeaksNext == PlotNewData \/ Replot \/ LeftClick \/ RightClick

SpecPeaks == CalInit /\ [][PeaksNext]_vars

\* ------------------------------------------------------------------------
\* The plot with the simple moving average (peak detection off)
\* ------------------------------------------------------------------------
\* the number of bins of the plotted data
SmaBins == 6

\* the largest smaLength the user enters
MaxSmaLength == 4

SmaTraces == [1..SmaBins -> {0, 4}]

\* plot.updatePlot: plotData replaces the y values by their moving average
\* when plot.sma is set (history: the indices of target that were read)
SmaPlot(m) ==
  IF m.sma
    THEN LET r == computeMovingAverage(m.trace, m.smaLength)
         IN [m EXCEPT !.smoothed = r.data, !.smaReads = r.reads]
    ELSE [m EXCEPT !.smoothed = <<>>, !.smaReads = {}]

\* main.ts toggleSma(value): a click on the sma checkbox
ToggleSma ==
  /\ pk' = SmaPlot([pk EXCEPT !.sma = ~@])
  /\ UNCHANGED notPeaks

\* main.ts changeSma(input) with a whole number of 1 or more
ChangeSma ==
  \E length \in 1..MaxSmaLength :
    /\ length # pk.smaLength
    /\ pk' = SmaPlot([pk EXCEPT !.smaLength = length])
    /\ UNCHANGED notPeaks

\* new data is plotted
SmaNewData ==
  \E y \in SmaTraces :
    /\ y # pk.trace
    /\ pk' = SmaPlot([pk EXCEPT !.trace = y])
    /\ UNCHANGED notPeaks

SmaNext == ToggleSma \/ ChangeSma \/ SmaNewData

SpecSma == CalInit /\ [][SmaNext]_vars

\* ------------------------------------------------------------------------
\* The plot with peak detection in isotope mode
\* ------------------------------------------------------------------------
\* isotope tables, keys in the order of Object.keys: none loaded, two
\* isotopes near the data, one at the edge of reach, one out of reach
IsoTables ==
  { <<>>,
    << [key |-> <<"1">>, name |-> <<"A", "-", "1">>],
       [key |-> <<"5">>, name |-> <<"B", "-", "5">>] >>,
    << [key |-> <<"6">>, name |-> <<"C", "-", "6">>] >>,
    << [key |-> <<"1", "2">>, name |-> <<"D", "-", "1", "2">>] >> }

\* the page after the peak finder was switched to isotope mode: no marker,
\* no data plotted yet
IsoInit ==
  /\ orderType = "chron"
  /\ sm = NewSerialManager
  /\ now = 0
  /\ fed = NoFeed
  /\ port = NewPort("serial")
  /\ cal = NewCal
  /\ \E t \in IsoTables : pk = [NewMarkers EXCEPT !.mode = 1, !.isoList = t]
  /\ link = "closed"
  /\ lock = 0
  /\ loops = [l \in Loops |-> "free"]
  /\ calls = {}
  /\ spectrum = <<>>
  /\ refreshTimers = NoTimers
  /\ delivered = 0
  /\ obs = NoObs

IsoNext == PlotNewData \/ Replot

SpecIso == IsoInit /\ [][IsoNext]_vars


\* ------------------------------------------------------------------------
\* Properties of the Stream Framer
\* ------------------------------------------------------------------------
\* a string that is an integer numeral: an optional sign, then digits only
IsNumeral(t) ==
  LET body == IF t # <<>> /\ Head(t) \in {"-", "+"} THEN Tail(t) ELSE t
  IN body # <<>> /\ \A i \in 1..Len(body) : body[i] \in Digits

RECURSIVE Flatten(_)
Flatten(chunks) ==
  IF chunks = <<>> THEN <<>> ELSE Head(chunks) \o Flatten(Tail(chunks))

\* C1: in chronological mode every pending sample is an integer in
\* 0..adcChannels that is the value of a numeric segment whose trimmed length
\* is above 0 and below maxLength; a non-numeric segment never becomes a
\* sample.
C1_OnlyValidSegmentsBecomeSamples ==
  (orderType = "chron") =>
    /\ Len(fed.elems) = Len(sm.bufferPulseData)
    /\ \A i \in 1..Len(sm.bufferPulseData) :
         LET t == Trim(fed.elems[i])
             v == sm.bufferPulseData[i]
         IN /\ v \in 0..adcChannels
            /\ Len(t) > 0 /\ Len(t) < maxLength
            /\ IsNumeral(t)

\* a stream of well-formed frames: in-range numerals, each followed by the
\* delimiter, the last frame possibly still incomplete
ValidStream(string) ==
  LET segs == Split(string, eolChar)
  IN /\ \A i \in 1..(Len(segs) - 1) :
          /\ IsNumeral(segs[i]) /\ Len(segs[i]) < maxLength
          /\ ParseInt(segs[i]) \in 0..adcChannels
     /\ \A k \in 1..Len(segs[Len(segs)]) : segs[Len(segs)][k] \in Digits

\* C2: for a valid chronological stream fed in chunks, with no drain and no
\* chunk dropped for saturation, the pending samples equal those of one
\* addRaw call on the whole stream.
C2_ChunkingInvariance ==
  ( /\ orderType = "chron" /\ ~sm.onlyConsole
    /\ ~fed.drained /\ ~fed.dropped
    /\ ValidStream(Decode(Flatten(fed.chunks))) )
  => sm.bufferPulseData =
       addRaw(FreshRecording, Flatten(fed.chunks), "chron", 0).bufferPulseData

\* the last chunk fed
LastChunk == fed.chunks[Len(fed.chunks)]

\* the rows a histogram addRaw call takes from its lines, in order
AcceptedRows(rawData) ==
  LET lines == SelectSeq(Pop(Split(rawData, CRLF)), HistAccepts)
  IN [i \in 1..Len(lines) |-> NumHist(StringHist(Trim(lines[i])))]

\* the pending count of channel i (an empty pending buffer holds no counts)
Pending(m, i) == IF m.bufferPulseData = <<>> THEN 0 ELSE m.bufferPulseData[i]

\* the sum over the rows of (row - the row before it), the first row taken
\* against base
RECURSIVE SumOfDeltas(_, _, _)
SumOfDeltas(rows, base, i) ==
  IF rows = <<>> THEN 0
  ELSE (Head(rows)[i] - base[i]) + SumOfDeltas(Tail(rows), Head(rows), i)

\* an addRaw call in histogram mode has just run with a baseline set and
\* has decoded (it was neither console-only nor saturated)
HistDecodedWithBaseline ==
  /\ orderType = "hist" /\ fed.last = "addRaw"
  /\ ~fed.before.onlyConsole
  /\ Len(fed.before.bufferPulseData) <= maxSize
  /\ fed.before.baseHist # <<>>

\* C3: in histogram mode a row R accepted while the baseline is B adds
\* R[i] - B[i] to the pending count of every channel i, and R becomes the
\* baseline: the next accepted row is differenced against R only.
C3_DeltaIsRowMinusBaseline ==
  HistDecodedWithBaseline =>
    LET rows == AcceptedRows(fed.before.rawData \o Decode(LastChunk))
    IN rows # <<>> =>
         /\ sm.baseHist = rows[Len(rows)]
         /\ Len(sm.bufferPulseData) = adcChannels
         /\ \A i \in 1..adcChannels :
              Pending(sm, i) - Pending(fed.before, i)
                = SumOfDeltas(rows, fed.before.baseHist, i)

\* C3 witness: one call has differenced two rows, the first against the
\* baseline and the second against the first
C3_Witness ==
  /\ HistDecodedWithBaseline
  /\ Len(AcceptedRows(fed.before.rawData \o Decode(LastChunk))) = 2
  /\ sm.baseHist # fed.before.baseHist
  /\ \E i \in 1..adcChannels : Pending(sm, i) # Pending(fed.before, i)

\* C7: while more than maxSize samples are pending, an addRaw call leaves the
\* pending buffer and the frame buffer unchanged, and the pending count gets
\* back to maxSize or below only by a getData call.
C7_SaturatedDropsChunk ==
  (Len(fed.before.bufferPulseData) > maxSize) =>
    /\ (fed.last = "addRaw") =>
          /\ sm.bufferPulseData = fed.before.bufferPulseData
          /\ sm.rawData = fed.before.rawData
    /\ (Len(sm.bufferPulseData) <= maxSize) => fed.last = "getData"

\* C7 witness: a chunk that holds frames was dropped in chronological mode
C7_Witness ==
  /\ orderType = "chron" /\ fed.last = "addRaw"
  /\ Len(fed.before.bufferPulseData) > maxSize
  /\ LastChunk = <<B_1, B_SEMI, B_2, B_SEMI>>

\* the size of the largest chunk fed so far
MaxChunkLen ==
  IF fed.chunks = <<>> THEN 0
  ELSE LET lens == {Len(fed.chunks[i]) : i \in 1..Len(fed.chunks)}
       IN CHOOSE n \in lens : \A k \in lens : k <= n

\* the frame buffer right after the last chunk was appended to it
Appended == fed.before.rawData \o Decode(LastChunk)

\* the last call was an addRaw call that found no frame to decode
AddRawFoundNoFrame ==
  fed.last = "addRaw" /\ FoundNoFrame(fed.before, LastChunk)

\* after a call that found no frame, a buffer longer than the limit is empty
ResetWhenTooLong ==
  AddRawFoundNoFrame =>
    /\ (Len(Appended) > FrameLimit) => sm.rawData = <<>>
    /\ Len(sm.rawData) <= FrameLimit

\* C12 as stated: a frame buffer that yields no frame and is longer than
\* the limit of the mode is reset to empty, and after each call the buffer
\* is no longer than that limit plus the size of one chunk.
C12_BoundedByLimitPlusChunk ==
  /\ ResetWhenTooLong
  /\ Len(sm.rawData) <= FrameLimit + MaxChunkLen

\* C12 amended: a frame buffer that yields no frame and is longer than the
\* limit of the mode is reset to empty, and after each call the buffer is
\* no longer than that limit plus the size of two chunks: in chronological
\* mode the segment before the first delimiter is never removed by a
\* decoding call, and it can hold the limit and most of one chunk.
C12_BoundedByLimitPlusTwoChunks ==
  /\ ResetWhenTooLong
  /\ Len(sm.rawData) <= FrameLimit + 2 * MaxChunkLen

\* C12 witness: a call has found no frame in a buffer longer than the limit
\* and has emptied it
C12_Witness ==
  /\ AddRawFoundNoFrame
  /\ Len(Appended) > FrameLimit
  /\ fed.before.rawData # <<>>
  /\ sm.rawData = <<>>

\* the last call was a chronological addRaw call that has discarded the
\* whole frame buffer
ChronDiscarded ==
  /\ orderType = "chron" /\ AddRawFoundNoFrame
  /\ Len(Appended) > maxLength
  /\ sm.rawData = <<>>

\* C25: in chronological mode the whole frame buffer is discarded only
\* when it holds no delimiter and is longer than maxLength: a buffer with a
\* complete frame in it is never discarded, so the reset loses no complete
\* valid frame
C25_DiscardOnlyWithoutDelimiter ==
  ChronDiscarded =>
    /\ \A i \in 1..Len(Appended) : <<Appended[i]>> # eolChar
    /\ SelectSeq(ChronArr(Appended), ChronAccepts) = <<>>

\* a is b with some of its elements left out: the elements of a occur in b
\* in the same order
RECURSIVE IsSubseq(_, _)
IsSubseq(a, b) ==
  IF a = <<>> THEN TRUE
  ELSE IF b = <<>> THEN FALSE
  ELSE IF Head(a) = Head(b) THEN IsSubseq(Tail(a), Tail(b))
  ELSE IsSubseq(a, Tail(b))

\* the characters of all the chunks fed so far, in arrival order
StreamText == Decode(Flatten(fed.chunks))

\* the sample values of the frames of a chronological stream, in the order
\* the frames appear in it
FrameValues(string) ==
  LET frames == SelectSeq(Split(string, eolChar), ChronAccepts)
  IN [i \in 1..Len(frames) |-> ParseInt(Trim(frames[i]))]

\* C13: order is preserved: the frame buffer holds characters of the stream
\* in arrival order; in chronological mode the pending samples, which are
\* the next getData result, are values of frames of the stream in the order
\* the frames appear in it; in histogram mode the baseline is a row of the
\* stream and the pending counts are that row minus a row that came no
\* later, as long as no reset of the frame buffer has cut a line.
C13_OrderPreserved ==
  /\ IsSubseq(sm.rawData, StreamText)
  /\ (orderType = "chron") =>
       IsSubseq(sm.bufferPulseData, FrameValues(StreamText))
  /\ (orderType = "hist" /\ sm.baseHist # <<>> /\ ~fed.cut) =>
       LET rows == AcceptedRows(StreamText)
       IN \E j \in 1..Len(rows) : \E i \in 1..j :
            /\ sm.baseHist = rows[j]
            /\ \A ch \in 1..adcChannels :
                 Pending(sm, ch) = rows[j][ch] - rows[i][ch]

\* C13 witness: after a drain, two frames with different values are pending
\* in stream order
C13_Witness ==
  /\ orderType = "chron" /\ fed.drained
  /\ Len(sm.bufferPulseData) >= 2
  /\ sm.bufferPulseData[1] < sm.bufferPulseData[2]

\* a histogram stream that is decoded whole: the manager is not
\* console-only, no chunk was dropped and no reset has cut a line
HistStreamDecoded ==
  /\ orderType = "hist" /\ ~sm.onlyConsole
  /\ ~fed.dropped /\ ~fed.cut

\* the rows of the stream that are still in the frame buffer
RowsLeft == AcceptedRows(sm.rawData)

\* the number of rows of the stream that addRaw has taken so far
RowsTaken == Len(AcceptedRows(StreamText)) - Len(RowsLeft)

\* C23: in histogram mode the first accepted row after a reset becomes the
\* baseline and adds nothing to the pending buffer; every accepted row
\* after it, also a row of the chunk that brought the baseline row, is
\* differenced once: a row not yet taken is still in the frame buffer, the
\* next decoding call takes all of them, and the pending counts are the
\* last row taken minus the baseline row
C23_BaselineThenEveryRowOnce ==
  HistStreamDecoded =>
    LET rows == AcceptedRows(StreamText)
    IN /\ (rows = <<>>) => (sm.baseHist = <<>> /\ sm.bufferPulseData = <<>>)
       /\ (rows # <<>>) =>
            /\ RowsTaken >= 1
            /\ RowsLeft = SubSeq(rows, RowsTaken + 1, Len(rows))
            /\ sm.baseHist = rows[RowsTaken]
            /\ ~fed.drained =>
                 \A ch \in 1..adcChannels :
                   Pending(sm, ch) = rows[RowsTaken][ch] - rows[1][ch]
       /\ (fed.last = "addRaw" /\ fed.before.baseHist = <<>>) =>
            sm.bufferPulseData = fed.before.bufferPulseData
       /\ (fed.last = "addRaw" /\ fed.before.baseHist # <<>>) =>
            RowsLeft = <<>>

\* C23 witness: the baseline row came with a second row in one chunk, the
\* second row waited in the frame buffer, and the next call has differenced
\* it against the baseline
C23_Witness ==
  /\ HistStreamDecoded /\ ~fed.drained
  /\ Len(fed.chunks) = 2
  /\ fed.chunks[1] = <<B_1, B_SEMI, B_1, B_SEMI, B_CR, B_LF,
                        B_2, B_SEMI, B_1, B_SEMI, B_CR, B_LF>>
  /\ fed.before.baseHist = <<1, 1>>
  /\ AcceptedRows(fed.before.rawData) = << <<2, 1>> >>
  /\ RowsLeft = <<>>
  /\ Pending(sm, 1) >= 1

\* the line is made of exactly n tokens, each one ended by the delimiter
ConsistsOfTokens(line, n) ==
  LET pieces == Split(Trim(line), eolChar)
  IN Len(pieces) = n + 1 /\ pieces[Len(pieces)] = <<>>

\* the complete lines the last addRaw call has found in the frame buffer,
\* those of a length the loop goes on with
LinesInRange ==
  LET inRange(line) == Len(Trim(line)) > 0 /\ Len(Trim(line)) < maxHistLength
  IN SelectSeq(Pop(Split(Appended, CRLF)), inRange)

\* an addRaw call in histogram mode has just decoded the frame buffer
HistDecoded ==
  /\ orderType = "hist" /\ fed.last = "addRaw"
  /\ ~fed.before.onlyConsole
  /\ Len(fed.before.bufferPulseData) <= maxSize

\* C24: in histogram mode a complete line is accepted as a row if and only
\* if it consists of exactly adcChannels tokens: a call whose lines all
\* have another token count changes neither the baseline nor the pending
\* buffer, and a call with a line of adcChannels tokens takes a row
C24_RowIffTokenCount ==
  HistDecoded =>
    /\ (\A k \in 1..Len(LinesInRange) :
           ~ConsistsOfTokens(LinesInRange[k], adcChannels)) =>
         /\ sm.baseHist = fed.before.baseHist
         /\ sm.bufferPulseData = fed.before.bufferPulseData
    /\ (\E k \in 1..Len(LinesInRange) :
           ConsistsOfTokens(LinesInRange[k], adcChannels)) =>
         sm.baseHist # <<>>

\* the sum of the counts of channel ch that refreshes have taken so far
Taken(ch) == IF fed.sums = <<>> THEN 0 ELSE fed.sums[ch]

\* C33: in histogram mode the per-channel sum of all the deltas emitted
\* since the first baseline B0 was set (those the refreshes have taken and
\* those still pending) equals the latest accepted row, which is the
\* baseline, minus B0; this holds also when lines in between were skipped
\* as malformed and when whole chunks were dropped while the pending
\* buffer was above the ceiling
C33_DeltasSumToLatestMinusFirst ==
  (orderType = "hist" /\ sm.baseHist # <<>>) =>
    /\ fed.base0 # <<>>
    /\ \A ch \in 1..adcChannels :
         Taken(ch) + Pending(sm, ch) = sm.baseHist[ch] - fed.base0[ch]

\* C33 witness: the baseline (1, 1) came with the row (2, 1) in one chunk;
\* the next call has differenced that row and skipped a malformed line, a
\* chunk was dropped above the ceiling, a refresh has taken the counts, and
\* the row (2, 2) was then differenced against (2, 1)
C33_Witness ==
  /\ orderType = "hist" /\ fed.dropped /\ fed.drained
  /\ Len(fed.chunks) = 4
  /\ fed.chunks[2] = <<B_1, B_SEMI, B_CR, B_LF>>
  /\ fed.base0 = <<1, 1>> /\ sm.baseHist = <<2, 2>>
  /\ fed.sums = <<1, 0>> /\ sm.bufferPulseData = <<0, 1>>

\* ------------------------------------------------------------------------
\* Properties of the sessions
\* ------------------------------------------------------------------------
\* the read loops that have not ended
RunningLoops == {l \in Loops : loops[l] \in Running}

\* C4: at most one read loop (readUntilClosed) of the SerialManager runs at
\* any time, whatever the interleaving of startRecord, showConsole and
\* stopRecord.
C4_AtMostOneReadLoop == Cardinality(RunningLoops) <= 1

\* the last handler to end was a stopRecord call that got past its guard
StopRecordEnded == obs.ended.op = "stopRecord"

\* C5: a stopRecord call on a recording session completes (its promise is
\* fulfilled), also when the link was already closed, and the transport
\* then is closed.
C5_StopRecordCompletes ==
  StopRecordEnded => obs.ended.outcome = "returned"

\* the step in which a startRecord(resume = true) call returns, having
\* opened the port and started its loop: the manager starts to record and
\* the handler that ends in the step is a resume
ResumeCompletes ==
  /\ ~sm.recording /\ sm'.recording
  /\ obs'.ended = Ended("startRecord", TRUE, "returned")

\* stopRecord has stopped a spectrum recording and nothing has been started
\* since
PausedBefore == obs.paused /\ ~sm.recording

C8_NoTransportErrorSurfaces ==
  /\ \A l \in Loops : loops[l] # "rejected"
  /\ obs.ended.op \in {"stopRecord", "hideConsole"} =>
       obs.ended.outcome # "threw"

\* C9: a close() call on a transport whose link is already closed, by an
\* earlier close() or by the peer, does nothing to the link and does not
\* fail.
C9_CloseIsIdempotent ==
  obs.close.called => (~obs.close.touched /\ ~obs.close.threw)

\* the waits of read() that a timeout ends (setTimeout of 10 or 100 ms)
TimedWaits == {"sleepNoValue", "sleepErr", "sleepIdle"}

\* C10: read() always returns, after a bounded idle wait when no byte
\* arrives: whenever a read() is suspended waiting for bytes, a timeout that
\* ends the wait is pending, so its return does not depend on the device.
C10_SuspendedReadHasTimeout ==
  \A l \in Loops :
    (loops[l] \in TimedWaits \cup {"reading"}) => loops[l] \in TimedWaits

\* the step in which a read() of loop l returns an empty chunk: its timed
\* wait has elapsed, or the close it awaited is fulfilled
EmptyReadReturns(l) ==
  \/ TimerFires(l)
  \/ loops[l] = "closeOk" /\ CloseReturns(l)

\* C11: an empty chunk returned by read() does not end the read loop and
\* leaves the recording flag unchanged; with the port open and recording set
\* the loop goes on to its next read, and the port's open state changes in
\* the step only by the close() which that next read makes on a port that
\* has no readable stream.
C11_EmptyReadKeepsLoop ==
  [][ \A l \in Loops :
        EmptyReadReturns(l) =>
          /\ sm'.recording = sm.recording
          /\ (port.isOpen /\ sm.recording) => loops'[l] \in Running
          /\ (port'.isOpen # port.isOpen) =>
                loops'[l] \in {"closeOk", "closeErr"} ]_vars

\* C11 witness: a WebUSB loop has taken the empty chunk of an idle wait, has
\* gone on to read the bytes received meanwhile, and waits again
C11_Witness ==
  /\ port.kind = "usb" /\ port.isOpen /\ sm.recording
  /\ sm.rawConsoleData # <<>>
  /\ \E l \in Loops : loops[l] = "sleepIdle"

\* ------------------------------------------------------------------------
\* Properties of the Spectrum Accumulator
\* ------------------------------------------------------------------------
RECURSIVE getTotalCounts(_)
getTotalCounts(target) ==
  IF target = <<>> THEN 0 ELSE Head(target) + getTotalCounts(Tail(target))

\* the last step was a refresh that called addPulseData
AddedPulseData == orderType = "chron" /\ fed.last = "getData"

\* C14: addPulseData on an empty target allocates adcChannels zero bins,
\* and after any sequence of addPulseData calls with samples the framer
\* accepted the target has exactly adcChannels bins, every bin is an
\* integer (a count), no index outside 0..adcChannels-1 was written, and
\* the total count is the number of samples ingested
C14_BinsCountSamples ==
  AddedPulseData =>
    /\ Len(spectrum) = adcChannels
    /\ \A i \in DOMAIN spectrum : spectrum[i] \in Nat
    /\ getTotalCounts(spectrum) = fed.ingested
    /\ (fed.target = <<>> /\ fed.before.bufferPulseData = <<>>) =>
         spectrum = Zeros(adcChannels)

\* C15: after any sequence of addHist calls from an empty target every
\* bin is the sum of the deltas handed over for it, the first call included
C15_BinsSumDeltas ==
  (orderType = "hist" /\ fed.last = "getData") => spectrum = fed.sums

\* the number of the returned samples whose value is the 0-based bin b
SamplesOf(returned, b) ==
  Cardinality({ k \in DOMAIN returned : returned[k] = b })

\* C31: each accepted chronological sample is returned by exactly one
\* getData call and increments exactly one spectrum bin exactly once: a
\* refresh takes all the pending samples and leaves the pending buffer
\* empty, every sample it took has its bin in the spectrum, and every bin
\* has grown by the number of samples taken with its value
C31_EachSampleCountedOnce ==
  (orderType = "chron" /\ fed.last = "getData") =>
    LET returned == fed.before.bufferPulseData
        old == IF fed.target = <<>> THEN Zeros(adcChannels) ELSE fed.target
    IN /\ sm.bufferPulseData = <<>>
       /\ Len(spectrum) = Len(old)
       /\ \A k \in DOMAIN returned : returned[k] + 1 \in DOMAIN spectrum
       /\ \A b \in DOMAIN spectrum :
            spectrum[b] = old[b] + SamplesOf(returned, b - 1)

\* C34: every bin of the recorded spectrum is a non-negative integer in
\* every reachable state, in both wire modes, for any sequence of accepted
\* samples and accepted histogram rows
C34_BinsAreCounts ==
  \A b \in DOMAIN spectrum : spectrum[b] \in Nat

\* ------------------------------------------------------------------------
\* Properties of the live time
\* ------------------------------------------------------------------------
\* a spectrum recording is active on the manager m
SpectrumActive(m) == m.recording /\ ~m.onlyConsole

\* the step begins a new acquisition: startRecord() without resume
NewAcquisition ==
  /\ ~sm.recording
  /\ SpectrumActive(sm')
  /\ sm'.timeDone = 0 /\ sm'.startTime = now

\* C16: getTime() is the sum of the durations of the intervals in which a
\* spectrum recording was active in the current acquisition: it grows with
\* the clock while a spectrum recording is active, and only then; time in
\* a pause is not counted, and no step other than the start of a new
\* acquisition changes it
C16_LiveTimeCountsRecording ==
  [][ /\ (now' # now /\ SpectrumActive(sm)) =>
            getTime(sm', now') = getTime(sm, now) + (now' - now)
      /\ (now' # now /\ ~SpectrumActive(sm)) =>
            getTime(sm', now') = getTime(sm, now)
      /\ (now' = now /\ ~NewAcquisition) =>
            getTime(sm', now') = getTime(sm, now) ]_vars

\* C29: in every state with no start or stop call in progress, recording
\* = true implies that a read loop runs (on a port that was open when the
\* loop last tested it): when the loop ends because the port was closed or
\* lost underneath it, the recording flag does not stay true
C29_RecordingMeansLoopRuns ==
  (calls = {} /\ sm.recording) => RunningLoops # {}

\* samples or counts accepted by addRaw wait in the pending buffer
SamplesPending ==
  IF orderType = "chron" THEN sm.bufferPulseData # <<>>
  ELSE \E i \in DOMAIN sm.bufferPulseData : sm.bufferPulseData[i] # 0

\* a pause or stop has completed and the program has nothing left to do:
\* no handler waits, no refresh timeout is armed, no read loop runs
StoppedAndIdle ==
  /\ StopRecordEnded /\ ~sm.recording
  /\ calls = {} /\ PendingTimers(refreshTimers) = 0 /\ RunningLoops = {}

\* C30: every sample accepted during a recording is added to the spectrum
\* in the end: once the session is paused or stopped and the program has
\* come to rest, no accepted sample is left in the pending buffer
C30_NothingPendingAfterStop ==
  StoppedAndIdle => ~SamplesPending

\* C32: after any sequence of record, pause, resume, stop and console
\* actions at most one refreshRender timeout chain is pending: a start
\* request that the SerialManager ignores adds no chain, and once a pause
\* or stop has completed, with nothing started since, no chain is pending
C32_AtMostOneRefreshChain ==
  /\ PendingTimers(refreshTimers) <= 1
  /\ (StopRecordEnded /\ ~sm.recording /\ calls = {}) =>
       PendingTimers(refreshTimers) = 0

\* ------------------------------------------------------------------------
\* Properties of the calibration
\* ------------------------------------------------------------------------
\* the number of (channel, energy) pairs of the inputs that are numbers
NumValidPairs ==
  Cardinality({ j \in 1..3 : /\ IsNumeral(ReadoutArray(cal.inputs)[j][1])
                             /\ IsNumeral(ReadoutArray(cal.inputs)[j][2]) })

\* the step is a click that asks for the calibration
AsksToEnable == ApplyCalClick /\ ~cal.checked

\* C17: calibration becomes enabled from the inputs only when exactly 2 or
\* exactly 3 pairs are valid numbers; with fewer than 2 valid pairs the
\* activation is declined, calibration stays disabled and the stored
\* reference points are unchanged
C17_EnabledByTwoOrThreePairs ==
  [][ /\ (cal'.enabled /\ ~cal.enabled) => NumValidPairs \in {2, 3}
      /\ (AsksToEnable /\ NumValidPairs < 2) =>
            /\ cal'.last = "declined"
            /\ ~cal'.enabled /\ ~cal'.checked
            /\ cal'.points = cal.points
      /\ (AsksToEnable /\ NumValidPairs \in {2, 3}) => cal'.enabled ]_vars

\* C17 witness: an activation with one valid pair was declined after an
\* earlier calibration had stored its reference points
C17_Witness ==
  /\ cal.last = "declined"
  /\ ~cal.enabled
  /\ NumValidPairs = 1
  /\ cal.points.aFrom = 10 /\ cal.points.bFrom = 500
  /\ cal.axis = getXAxis(TraceLen)

\* the reference channels in use are pairwise distinct
DistinctChannels(c) ==
  /\ c.aFrom # c.bFrom
  /\ c.three => (c.aFrom # c.cFrom /\ c.bFrom # c.cFrom)

\* C18: a calibration whose reference channels are not pairwise distinct
\* is rejected before use: it is never enabled, and the calibrated axis
\* holds no NaN or Infinity
C18_ZeroDenominatorRejected ==
  cal.enabled =>
    /\ DistinctChannels(cal.points)
    /\ \A j \in DOMAIN cal.axis : cal.axis[j] # NaN

\* C19: with a 2-point calibration of distinct channels the calibrated
\* axis has, at each reference channel, the reference energy: with the
\* points (10, 100) and (500, 2000) the value 100.00 at index 10 and
\* 2000.00 at index 500
C19_ReferencePointsReproduced ==
  (cal.enabled /\ ~cal.points.three /\ DistinctChannels(cal.points)) =>
    /\ (cal.points.aFrom + 1 \in DOMAIN cal.axis) =>
         cal.axis[cal.points.aFrom + 1] = 100 * cal.points.aTo
    /\ (cal.points.bFrom + 1 \in DOMAIN cal.axis) =>
         cal.axis[cal.points.bFrom + 1] = 100 * cal.points.bTo

\* C19 witness: the points (10, 100) and (500, 2000) are applied and the
\* axis reads 100.00 at index 10 and 2000.00 at index 500
C19_Witness ==
  /\ cal.enabled /\ ~cal.points.three
  /\ cal.points.aFrom = 10 /\ cal.points.aTo = 100
  /\ cal.points.bFrom = 500 /\ cal.points.bTo = 2000
  /\ cal.axis[11] = 10000 /\ cal.axis[501] = 200000

\* the step is a click that asks for the calibration again: one was
\* applied before and has been switched off since
AsksToEnableAgain == AsksToEnable /\ cal.points # NoPoints

\* C22: switching the calibration off and on again reuses the calibration
\* computed before: the reference points and the mapping in effect after
\* the second activation are those in effect before the calibration was
\* switched off, whatever the input fields hold
C22_ReenableReusesCalibration ==
  [][ AsksToEnableAgain =>
        /\ cal'.enabled
        /\ cal'.points = cal.points
        /\ cal'.axis = getCalAxis(cal.points, TraceLen) ]_vars

\* ------------------------------------------------------------------------
\* Properties of the peak markers
\* ------------------------------------------------------------------------
\* the step runs peak detection a second time in a row on unchanged data
SecondRun == pk.ran /\ Replot

\* C20: running peak detection twice in a row on unchanged data and
\* tunables leaves the same shapes, annotations and peakConfig.lines as
\* running it once, none duplicated and none left stale
C20_SecondRunKeepsMarkers ==
  [][ SecondRun =>
        /\ pk'.shapes = pk.shapes
        /\ pk'.annotations = pk.annotations
        /\ pk'.lines = pk.lines ]_vars

\* the threshold crossings of the plotted data, in ascending x order
Crossings ==
  LET all == [j \in 1..Len(pk.lastDataY) |-> j - 1]
      Above(x) == IsPeakBin(pk.lastDataY, x)
  IN SelectSeq(all, Above)

\* the number of maximal runs of crossings in which neighbours differ by
\* at most width
NumRuns ==
  IF Crossings = <<>> THEN 0
  ELSE 1 + Cardinality({ j \in 1..(Len(Crossings) - 1) :
                           Crossings[j + 1] - Crossings[j] > width })

\* C26: in energy mode peak detection emits exactly one peak for every
\* maximal run of crossings, wherever the run lies on the x axis; a single
\* run gives one peak whose x lies between the first and the last crossing
\* of the run
C26_OnePeakPerRun ==
  (pk.lastDataY # <<>>) =>
    /\ Len(pk.lines) = NumRuns
    /\ (NumRuns = 1) =>
         /\ Crossings[1] * pk.lines[1].d <= pk.lines[1].n
         /\ pk.lines[1].n <= Crossings[Len(Crossings)] * pk.lines[1].d

\* the line the user has clicked is marked in the plot m: its shape and its
\* annotation are there
ClickMarkerShown(m) ==
  /\ m.prevClickLine # NoLine
  /\ \E j \in DOMAIN m.shapes : m.shapes[j] = Frac(m.prevClickLine, 1)
  /\ \E j \in DOMAIN m.annotations :
       m.annotations[j] = [x |-> 100 * m.prevClickLine,
                           text |-> WholeText(m.prevClickLine)]

\* the step draws the plot and runs peak detection, with no click in it
PeakFinderRuns == PlotNewData \/ Replot

\* C35: the clearing at the start of peakFinder removes only markers that
\* peak detection has added: the marker of a clicked line remains in
\* shapes and annotations after every peakFinder run, also when a
\* detected peak lies on the clicked line
C35_OtherMarkersRemain ==
  [][ (PeakFinderRuns /\ ClickMarkerShown(pk)) => ClickMarkerShown(pk') ]_vars

\* the numbers under which the isotope table has entries
TableKeys == { ParseFloat(pk.isoList[j].key) : j \in DOMAIN pk.isoList }

\* the keys of the table no further than maxDist from value
KeysWithin(value, maxDist) ==
  { k \in TableKeys : Abs(k * value.d - value.n) <= maxDist * value.d }

\* the results of the lookups of the last run that found an isotope
Matches ==
  LET found(s) == s.result.found
      hits == SelectSeq(pk.seeks, found)
  IN [j \in 1..Len(hits) |-> Frac(hits[j].result.energy, 1)]

\* C27: seekClosest returns the key of the table that is nearest to the
\* value among the keys no further than maxDist from it, and no match
\* when there is no such key; the table is as it was loaded; in isotope
\* mode a peak group gets a marker only for such a match
C27_NearestKeyWithinReach ==
  (pk.mode = 1) =>
    /\ \A j \in DOMAIN pk.seeks :
         LET s == pk.seeks[j]
             within == KeysWithin(s.value, s.maxDist)
         IN /\ s.result.found <=> within # {}
            /\ s.result.found =>
                 /\ s.result.energy \in within
                 /\ \A k \in within :
                      Abs(s.result.energy * s.value.d - s.value.n)
                        <= Abs(k * s.value.d - s.value.n)
                 /\ \E e \in DOMAIN pk.isoList :
                      /\ ParseFloat(pk.isoList[e].key) = s.result.energy
                      /\ pk.isoList[e].name = s.result.name
    /\ pk.isoList \in IsoTables
    /\ pk.lines = Matches
    /\ {pk.shapes[j] : j \in DOMAIN pk.shapes}
         = {Matches[j] : j \in DOMAIN Matches}
    /\ Len(pk.annotations) = Len(pk.shapes)

\* C27 witness: one run has looked up two peak groups; the first has found
\* no isotope and has no marker, the second has found the isotope at the
\* distance maxDist itself and is marked with its name
C27_Witness ==
  /\ pk.mode = 1 /\ Len(pk.seeks) = 2
  /\ ~pk.seeks[1].result.found
  /\ pk.seeks[2].result =
       [found |-> TRUE, energy |-> 6, name |-> <<"C", "-", "6">>]
  /\ pk.seeks[2].value = Frac(4, 1) /\ pk.seeks[2].maxDist = seekWidth
  /\ pk.lines = <<Frac(6, 1)>>
  /\ Len(pk.annotations) = 1 /\ pk.annotations[1].text = <<"C", "6">>

\* C28: for a length of 1 or more computeMovingAverage returns at every
\* index i the mean of the values in the window [i - half + 1,
\* i + half - (length mod 2)] cut at the ends of the array, the sum divided
\* by the number of values in the window; it reads no index outside the
\* array, and the values of the shortcut are those of the window mean
C28_WindowMean ==
  pk.sma =>
    /\ Len(pk.smoothed) = Len(pk.trace)
    /\ \A i \in 0..(Len(pk.trace) - 1) :
         LET w == MovingWindow(pk.trace, i, pk.smaLength)
         IN pk.smoothed[i + 1] = Frac(w.sum, w.divider)
    /\ pk.smaReads \subseteq 0..(Len(pk.trace) - 1)

\* C28 witness: a trace of uneven values is averaged over 3 bins: the
\* ends are cut windows, the inner indices take the shortcut
C28_Witness ==
  /\ pk.sma /\ pk.smaLength = 3
  /\ pk.trace = <<0, 4, 4, 0, 0, 4>>
  /\ pk.smoothed = <<Frac(4, 2), Frac(8, 3), Frac(8, 3), Frac(4, 3),
                      Frac(4, 3), Frac(4, 2)>>

\* an invocation of startRecord / showConsole whose port.open fails ends in
\* this step
OpenFailsNow(c) ==
  /\ c \in calls
  /\ c.pc = "openWait"
  /\ ~c.ok
  /\ c \notin calls'

\* C37: when port.open fails in startRecord or showConsole, the error
\* reaches the caller (the invocation ends by throwing, and main.ts neither
\* resets the spectrum nor arms a refresh) and the manager is as before: its
\* recording flag, pending samples, frame buffer, histogram baseline and
\* live time keep their values, and no read loop is started.
C37_FailedOpenChangesNothing ==
  [][ \A c \in calls :
        OpenFailsNow(c) =>
          /\ obs'.ended = Ended(c.op, c.resume, "threw")
          /\ sm' = sm
          /\ loops' = loops
          /\ lock' = lock
          /\ spectrum' = spectrum
          /\ refreshTimers' = refreshTimers ]_vars

C37_Witness ==
  /\ obs.ended = Ended("startRecord", TRUE, "threw")
  /\ ~sm.recording
  /\ sm.bufferPulseData # <<>>
  /\ \A l \in Loops : loops[l] \notin Running

\* ------------------------------------------------------------------------
\* Properties of the console
\* ------------------------------------------------------------------------
\* the last n characters of the text s, all of it when it has no more
LastChars(s, n) ==
  IF Len(s) > n THEN SubSeq(s, Len(s) - n + 1, Len(s)) ELSE s

\* C40: the console log holds at most consoleMemory characters, and they
\* are the characters received last, those of the chunks that arrived while
\* the pending samples were saturated included.
C40_ConsoleKeepsLatest ==
  /\ Len(sm.rawConsoleData) <= consoleMemory
  /\ sm.rawConsoleData = LastChars(StreamText, consoleMemory)

C40_Witness ==
  /\ fed.last = "addRaw"
  /\ ~sm.onlyConsole
  /\ Len(fed.before.bufferPulseData) > sm.maxSize
  /\ LastChunk # <<>>
  /\ Len(StreamText) > consoleMemory
  /\ Len(sm.rawConsoleData) = consoleMemory

\* a chunk reaches the console log of a manager in console-only mode
ConsoleOnlyChunk ==
  /\ sm.recording /\ sm.onlyConsole
  /\ sm'.rawConsoleData # sm.rawConsoleData

\* hideConsole is called during a spectrum recording
HideDuringRecording ==
  /\ HideConsoleClose
  /\ sm.recording /\ ~sm.onlyConsole

\* C39: in console-only mode a chunk goes to the console log only: addRaw
\* leaves the frame buffer, the pending samples and the histogram baseline
\* as they are; and a hideConsole called during a spectrum recording leaves
\* the recording running: the manager, its transport and its read loop are
\* as before.
C39_ConsoleOnlyTouchesConsoleOnly ==
  [][ /\ ConsoleOnlyChunk =>
           /\ sm'.rawData = sm.rawData
           /\ sm'.bufferPulseData = sm.bufferPulseData
           /\ sm'.baseHist = sm.baseHist
      /\ HideDuringRecording =>
           /\ sm' = sm
           /\ port' = port
           /\ link' = link
           /\ loops' = loops
           /\ lock' = lock
           /\ calls' = calls ]_vars

C39_Witness ==
  /\ obs.ignored
  /\ sm.recording /\ ~sm.onlyConsole
  /\ port.isOpen
  /\ \E l \in Loops : loops[l] \in Running
  /\ sm.bufferPulseData # <<>>
\* ------------------------------------------------------------------------
\* the write position stays within the receive buffer
PosWithinBuffer == Len(port.buf) <= bufferLength

\* C38: every byte handed to the receive callback has been returned by
\* read() once, or waits in the buffer to be returned, in the order of
\* arrival; and the write position never exceeds the receive buffer.
C38_BytesDeliveredOnceInOrder ==
  /\ fed.handed = fed.got \o port.buf
  /\ PosWithinBuffer

\* ------------------------------------------------------------------------
\* Properties of the port selection
\* ------------------------------------------------------------------------
\* C36: whenever the page replaces its SerialManager, the manager it
\* replaces has no running read loop and its port is closed.
C36_NoOrphanedSession ==
  obs.replaced.happened =>
    /\ ~obs.replaced.loopRunning
    /\ ~obs.replaced.isOpen

\* ------------------------------------------------------------------------
\* Properties of the start of a recording
\* ------------------------------------------------------------------------
\* the step in which a startRecord(resume = false) call returns, having
\* opened the port and started its loop
NewRecordingCompletes ==
  /\ ~sm.recording /\ sm'.recording
  /\ obs'.ended = Ended("startRecord", FALSE, "returned")

\* C21: once a startRecord without resume has succeeded, the pending
\* samples and the frame buffer are empty, the histogram baseline is
\* unset, the live time is 0 and the spectrum holds no count of an
\* earlier recording
C21_NewRecordingClearsSession ==
  [][ NewRecordingCompletes =>
        /\ sm'.bufferPulseData = <<>>
        /\ sm'.rawData = <<>>
        /\ sm'.baseHist = <<>>
        /\ sm'.timeDone = 0 /\ getTime(sm', now') = 0
        /\ spectrum' \in {<<>>, Zeros(adcChannels)} ]_vars

\* C21 witness: a recording was started anew after an earlier session had
\* received data, and nothing of that session is left
C21_Witness ==
  /\ obs.ended = Ended("startRecord", FALSE, "returned")
  /\ obs.clicks >= 3 /\ sm.recording /\ ~sm.onlyConsole
  /\ sm.rawConsoleData # <<>>
  /\ sm.rawData = <<>> /\ sm.bufferPulseData = <<>> /\ sm.baseHist = <<>>
  /\ spectrum \in {<<>>, Zeros(adcChannels)}

====
